---- MODULE Spec2Model ----
(***************************************************************************)
(* Model of the state-synchronisation cache and the liquidation scheduling *)
(* loop of mrgnlabs/mary.                                                  *)
(*                                                                         *)
(*   Spec       the Pool (BanksCache) and Position (MarginfiAccountsCache) *)
(*              caches and the Health Index under arbitrary upserts        *)
(*   SpecOrd    one set of upserts serialized in two independent orders    *)
(*   SpecLock   MarginfiAccountsCache::update at lock granularity, with    *)
(*              concurrent readers                                         *)
(*   SpecGuards every cache call of every thread at lock granularity       *)
(*   SpecSched  LiquidationService::run with concurrent Position writes    *)
(*   SpecVisit  the same cycle with the Position read for every address    *)
(*   SpecOracle CacheLoader::load_oracles against streamed oracle updates  *)
(*   SpecIngest GeyserProcessor::run and its channel                       *)
(*   SpecSvc    LiquidationService::run with process_account step by step  *)
(*   SpecStart  ServiceManager::start                                      *)
(*   SpecDecode OraclesCache::insert and update over every oracle variant  *)
(*              and every shape of account data                            *)
(*   SpecLuts   LutsCache::populate and CacheLoader::load_luts             *)
(*   SpecBoot   CacheLoader::load_cache against streamed events            *)
(*   SpecClassify  common::get_marginfi_message_type over byte sequences    *)
(*   SpecHealth CachedMarginfiAccount::health over asset and liability      *)
(*              values                                                     *)
(***************************************************************************)
EXTENDS Integers, Sequences, FiniteSets, TLC

VARIABLES
    banks,              \* BanksCache.banks: address -> CachedBank
    accounts,           \* MarginfiAccountsCache.accounts: address -> CachedMarginfiAccount
    account_to_health,  \* MarginfiAccountsCache.account_to_health: address -> i64
    lastOp,             \* the last cache operation, its arguments and its result
    appliedA,           \* SpecOrd: the upserts applied to the caches, in order
    appliedB,           \* SpecOrd: the upserts applied in the second serialization
    cacheB,             \* SpecOrd: the caches of the second serialization
    upserts,            \* SpecOrd: the set of upserts both serializations apply
    wpc,                \* SpecLock: position of each thread inside update()
    wargs,              \* SpecLock: arguments of each thread's update() call
    rpc,                \* SpecLock: position of each reader
    accountsLock,       \* SpecLock: RwLock of accounts
    healthLock,         \* SpecLock: RwLock of account_to_health
    stop,               \* the process-wide stop flag
    lqpc,               \* SpecSched: position of LiquidationService::run
    snapshot,           \* SpecSched: accounts_by_health of the cycle
    sorted_accounts,    \* SpecSched: the cycle's visit order
    idx,                \* SpecSched: number of addresses the for loop has taken
    visited,            \* SpecSched: visits of the cycle, in order, with their result
    oracles,            \* OraclesCache.oracles: address -> CachedOracle
    clock,              \* Cache.clock
    exited,             \* the panic hook has ended the process
    ldpc,               \* position of CacheLoader::load_oracles
    ldTodo,             \* load_oracles: the inserts its loops have still to make
    oracle_accounts,    \* load_oracles: the accounts the RPC node returned
    oracle_addresses,   \* GeyserSubscriber::run: the addresses it subscribed to
    queue,              \* the channel between GeyserSubscriber and GeyserProcessor
    connected,          \* the channel still has a Sender
    gppc,               \* position of GeyserProcessor::run
    sent,               \* every message sent to the channel, in order
    handled,            \* every iteration of GeyserProcessor::run, in order
    papc,               \* position inside LiquidationService::process_account
    calls,              \* the strategy calls of the visit in progress
    poisoned,           \* the RwLocks a panicked writer has poisoned
    mainpc,             \* position of ServiceManager::start
    mints,              \* MintsCache.mints: address -> CachedMint
    luts,               \* LutsCache.luts
    lut_addresses,      \* CacheLoader.lut_addresses
    bootpc,             \* position of CacheLoader::load_cache
    ldSlot,             \* load_accounts: the slot it read from the cached clock
    ldAccounts,         \* load_accounts: the fetched accounts still to handle
    ldLog,              \* load_cache: the loads it has entered and their results
    kindLocks,          \* SpecGuards: the RwLocks of clock, banks, mints, oracles, luts
    kpc                 \* SpecGuards: the cache call each thread is in

vars == <<banks, accounts, account_to_health, lastOp, appliedA, appliedB,
          cacheB, upserts, wpc, wargs, rpc, accountsLock, healthLock, stop,
          lqpc, snapshot, sorted_accounts, idx, visited, oracles, clock,
          exited, ldpc, ldTodo, oracle_accounts, oracle_addresses, queue,
          connected, gppc, sent, handled, papc, calls, poisoned, mainpc,
          mints, luts, lut_addresses, bootpc, ldSlot, ldAccounts, ldLog,
          kindLocks, kpc>>

cacheVars == <<banks, accounts, account_to_health>>
ordVars   == <<appliedA, appliedB, cacheB, upserts>>
kindVars  == <<kindLocks, kpc>>
lockVars  == <<wpc, wargs, rpc, accountsLock, healthLock, kindVars>>
schedVars == <<stop, lqpc, snapshot, sorted_accounts, idx, visited>>
loadVars  == <<ldpc, ldTodo, oracle_accounts, oracle_addresses>>
gpVars    == <<queue, connected, gppc, sent, handled>>
paVars    == <<papc, calls, poisoned>>
bootVars  == <<mints, luts, lut_addresses, bootpc, ldSlot, ldAccounts, ldLog>>
svcVars   == <<oracles, clock, exited, loadVars, gpVars, paVars, mainpc, bootVars>>

----------------------------------------------------------------------------
(* Bounds and input sets *)

MaxSlot == 2
Slots == 1..MaxSlot

\* width of the health score in the model; the program's i64/u64 have 64 bits
HealthBits == 8

Address == {"A1", "A2"}

\* Pubkey::default(), the null address
DefaultPubkey == "default"

EmptyMap == [a \in {} |-> 0]

\* Bank accounts as decoded from the chain: mint and BankConfig
BankValues ==
    { [mint |-> "M1", oracle_setup |-> "PythPushOracle",
       oracle_keys |-> <<"O1", DefaultPubkey, "O2", DefaultPubkey, DefaultPubkey>>],
      [mint |-> "M2", oracle_setup |-> "SwitchboardPull",
       oracle_keys |-> <<"O3", "O3", DefaultPubkey, DefaultPubkey, DefaultPubkey>>] }

Balance(active, bank_pk) == [active |-> active, bank_pk |-> bank_pk]

MkAccount(asset, liability, balances) ==
    [asset_value_maint |-> asset, liability_value_maint |-> liability,
     balances |-> balances]

\* MarginfiAccount values: health_cache values and lending_account balances
AccountValues ==
    { MkAccount(0, 5, <<Balance(1, "A1"), Balance(0, DefaultPubkey)>>),
      MkAccount(1000, 500, <<Balance(1, "A1"), Balance(1, "A2")>>),
      MkAccount(1000, 1500, <<Balance(0, DefaultPubkey), Balance(1, "A2")>>) }

----------------------------------------------------------------------------
(* BanksCache *)

\* fault: only the first non-default key is kept
get_oracle_accounts_FirstOnly(bank_config_oracle_keys) ==
    LET keys == SelectSeq(bank_config_oracle_keys, LAMBDA key : key # DefaultPubkey)
    IN IF keys = <<>> THEN <<>> ELSE <<Head(keys)>>

get_oracle_accounts(bank_config_oracle_keys) ==
    SelectSeq(bank_config_oracle_keys, LAMBDA key : key # DefaultPubkey)

CachedBankFrom(slot, address, bank) ==
    [slot |-> slot,
     _address |-> address,
     mint |-> bank.mint,
     oracle |-> [oracle_type |-> bank.oracle_setup,
                 oracle_addresses |-> get_oracle_accounts(bank.oracle_keys)]]

\* the slot rule of both caches with its plausible faults
IsNewer_Always(map, address, slot) == TRUE

IsNewer_Reversed(map, address, slot) ==
    IF address \in DOMAIN map THEN map[address].slot > slot ELSE TRUE

IsNewer_OrEqual(map, address, slot) ==
    IF address \in DOMAIN map THEN map[address].slot <= slot ELSE TRUE

\* map.get(&address).map_or(true, |existing| existing.slot < upd.slot)
IsNewer(map, address, slot) ==
    IF address \in DOMAIN map THEN map[address].slot < slot ELSE TRUE

\* HashMap::insert
MapInsert(map, key, value) == (key :> value) @@ map

BanksCacheUpdate(bs, slot, address, bank) ==
    LET upd_cached_bank == CachedBankFrom(slot, address, bank) IN
    IF IsNewer(bs, address, upd_cached_bank.slot)
    THEN MapInsert(bs, address, upd_cached_bank)
    ELSE bs

----------------------------------------------------------------------------
(* MarginfiAccountsCache *)

\* i64::MIN at the model's width
INVALID_HEALTH == -(2 ^ (HealthBits - 1))

\* Option<T>
None == <<>>
Some(v) == <<v>>
IsSome(o) == Len(o) = 1
Unwrap(o) == o[1]

\* no thread
Nobody == "nobody"

CachedMarginfiAccountFrom(slot, address, marginfi_account) ==
    [slot |-> slot,
     address |-> address,
     _marginfi_account |-> marginfi_account,
     _positions |-> SelectSeq(marginfi_account.balances,
                              LAMBDA balance : balance.active # 0)]

\* the integer bits of I80F48 at the model's width: as many above the
\* width of the score as 80 is above 64, in bytes
I80F48IntBits == HealthBits + 8

\* the value is in the range of I80F48
FitsI80F48(v) == -(2 ^ (I80F48IntBits - 1)) <= v /\ v < 2 ^ (I80F48IntBits - 1)

\* the value is in the range of i64
FitsI64(v) == -(2 ^ (HealthBits - 1)) <= v /\ v < 2 ^ (HealthBits - 1)

\* Fixed::to_num::<i64> of a build without debug assertions: the fractional
\* bits are discarded (rounding towards -infinity) and the integer wraps to
\* the width of i64
to_num(v) ==
    LET low == v % (2 ^ HealthBits)
    IN IF low >= 2 ^ (HealthBits - 1) THEN low - 2 ^ HealthBits ELSE low

\* I80F48::checked_div followed by the rounding of to_num: None when the
\* divisor is zero or the quotient is out of the range of I80F48
checked_div(lhs, rhs) ==
    IF rhs = 0 THEN None
    ELSE IF ~FitsI80F48(lhs \div rhs) THEN None
    ELSE Some(lhs \div rhs)

health_ZeroForNone(cached) ==
    LET asset == cached._marginfi_account.asset_value_maint
        liab  == cached._marginfi_account.liability_value_maint
    IN IF asset = 0 THEN Some(0) ELSE Some((asset - liab) \div asset)

\* (asset - liability).checked_div(asset).map(|v| v.to_num::<i64>())
health(cached) ==
    LET asset == cached._marginfi_account.asset_value_maint
        liab  == cached._marginfi_account.liability_value_maint
        quotient == checked_div(asset - liab, asset)
    IN IF IsSome(quotient) THEN Some(to_num(Unwrap(quotient))) ELSE None

\* to_num::<i64> panics in a build with debug assertions when the quotient
\* does not fit i64
HealthPanics(cached) ==
    LET asset == cached._marginfi_account.asset_value_maint
        liab  == cached._marginfi_account.liability_value_maint
        quotient == checked_div(asset - liab, asset)
    IN IsSome(quotient) /\ ~FitsI64(Unwrap(quotient))

\* the match on upd_cached_account_health
HealthEntry(upd_health) ==
    IF IsSome(upd_health) THEN Unwrap(upd_health) ELSE INVALID_HEALTH

Caches(acc, hl) == [accounts |-> acc, account_to_health |-> hl]

\* faults of update(): the Health Index written outside the slot check,
\* and the Health Index invalidated when the write is dropped
MarginfiAccountsCacheUpdate_HealthAlways(acc, hl, slot, address, account) ==
    LET upd == CachedMarginfiAccountFrom(slot, address, account)
        new_health == MapInsert(hl, address, HealthEntry(health(upd)))
    IN IF IsNewer(acc, address, upd.slot)
       THEN Caches(MapInsert(acc, address, upd), new_health)
       ELSE Caches(acc, new_health)

MarginfiAccountsCacheUpdate_InvalidateOnDrop(acc, hl, slot, address, account) ==
    LET upd == CachedMarginfiAccountFrom(slot, address, account)
    IN IF IsNewer(acc, address, upd.slot)
       THEN Caches(MapInsert(acc, address, upd),
                   MapInsert(hl, address, HealthEntry(health(upd))))
       ELSE Caches(acc, MapInsert(hl, address, INVALID_HEALTH))

\* HashMap::remove
MapRemove(map, key) == [k \in DOMAIN map \ {key} |-> map[k]]

\* fault: a dropped write removes the score of the address
MarginfiAccountsCacheUpdate_ForgetOnDrop(acc, hl, slot, address, account) ==
    LET upd == CachedMarginfiAccountFrom(slot, address, account)
    IN IF IsNewer(acc, address, upd.slot)
       THEN Caches(MapInsert(acc, address, upd),
                   MapInsert(hl, address, HealthEntry(health(upd))))
       ELSE Caches(acc, MapRemove(hl, address))

MarginfiAccountsCacheUpdate(acc, hl, slot, address, account) ==
    LET upd_cached_account == CachedMarginfiAccountFrom(slot, address, account)
        upd_cached_account_health == health(upd_cached_account)
    IN IF IsNewer(acc, address, upd_cached_account.slot)
       THEN Caches(MapInsert(acc, address, upd_cached_account),
                   MapInsert(hl, address, HealthEntry(upd_cached_account_health)))
       ELSE Caches(acc, hl)

----------------------------------------------------------------------------
(* Spec: the two caches under arbitrary upserts *)

NoOp == [kind |-> "none", slot |-> 0, address |-> DefaultPubkey, value |-> None,
         applied |-> FALSE, result |-> "Ok"]

SameCall(op, kind, slot, address, value) ==
    /\ op.kind = kind
    /\ op.slot = slot
    /\ op.address = address
    /\ op.value = value

\* the record of an update() call; update() returns Err only for a poisoned
\* lock, which no step of these caches produces
Op(kind, slot, address, value, applied) ==
    [kind |-> kind, slot |-> slot, address |-> address, value |-> value,
     applied |-> applied, result |-> "Ok"]

IdleOrd == /\ appliedA = <<>> /\ appliedB = <<>> /\ upserts = {}
           /\ cacheB = [banks |-> EmptyMap, accounts |-> EmptyMap,
                        account_to_health |-> EmptyMap]

IdleKind == kindLocks = EmptyMap /\ kpc = EmptyMap

IdleLock == /\ wpc = EmptyMap /\ wargs = EmptyMap /\ rpc = EmptyMap
            /\ accountsLock = [writer |-> Nobody, readers |-> {}]
            /\ healthLock = [writer |-> Nobody, readers |-> {}]
            /\ IdleKind

IdleSched == /\ stop = FALSE /\ lqpc = "off" /\ snapshot = EmptyMap
             /\ sorted_accounts = <<>> /\ idx = 0 /\ visited = <<>>

IdleLoad == /\ ldpc = "off" /\ ldTodo = <<>> /\ oracle_accounts = EmptyMap
            /\ oracle_addresses = None

IdleGp == /\ queue = <<>> /\ connected = TRUE /\ gppc = "off"
          /\ sent = <<>> /\ handled = <<>>

IdlePa == /\ papc = "off" /\ calls = <<>> /\ poisoned = {}

IdleBoot == /\ mints = EmptyMap /\ luts = <<>> /\ lut_addresses = <<>>
            /\ bootpc = "off" /\ ldSlot = 0 /\ ldAccounts = <<>> /\ ldLog = <<>>

IdleSvc == /\ oracles = EmptyMap /\ clock = [slot |-> 0] /\ exited = FALSE
           /\ IdleLoad /\ IdleGp /\ IdlePa /\ mainpc = "off" /\ IdleBoot

EmptyCaches == /\ banks = EmptyMap
               /\ accounts = EmptyMap
               /\ account_to_health = EmptyMap
               /\ lastOp = NoOp

Init == EmptyCaches /\ IdleOrd /\ IdleLock /\ IdleSched /\ IdleSvc

\* BanksCache::update(slot, address, bank)
BanksUpdate(slot, address, bank) ==
    /\ banks' = BanksCacheUpdate(banks, slot, address, bank)
    /\ UNCHANGED <<accounts, account_to_health>>

\* MarginfiAccountsCache::update(slot, address, account)
AccountsUpdate(slot, address, account) ==
    LET r == MarginfiAccountsCacheUpdate(accounts, account_to_health,
                                         slot, address, account)
    IN /\ accounts' = r.accounts
       /\ account_to_health' = r.account_to_health
       /\ UNCHANGED banks

Next ==
    \/ \E s \in Slots, a \in Address, b \in BankValues :
          /\ BanksUpdate(s, a, b)
          /\ lastOp' = Op("bank", s, a, b, IsNewer(banks, a, s))
          /\ UNCHANGED <<ordVars, lockVars, schedVars, svcVars>>
    \/ \E s \in Slots, a \in Address, m \in AccountValues :
          /\ AccountsUpdate(s, a, m)
          /\ lastOp' = Op("account", s, a, m, IsNewer(accounts, a, s))
          /\ UNCHANGED <<ordVars, lockVars, schedVars, svcVars>>

Spec == Init /\ [][Next]_vars

----------------------------------------------------------------------------
(* SpecOrd: one set of upserts, written by the Bootstrap Loader           *)
(* (CacheLoader::load_accounts) and the Ingestion Processor               *)
(* (GeyserProcessor::process_message), serialized by the cache locks in   *)
(* two independently chosen orders                                        *)

MaxUpserts == 2

Upsert(kind, slot, address, value) ==
    [kind |-> kind, slot |-> slot, address |-> address, value |-> value]

AllUpserts ==
    {Upsert("bank", s, a, b) : s \in Slots, a \in Address, b \in BankValues}
    \cup {Upsert("account", s, a, m) : s \in Slots, a \in Address, m \in AccountValues}

Range(seq) == {seq[i] : i \in 1..Len(seq)}

\* the sets of at most MaxUpserts upserts
UpsertSets == {{}} \cup {Range(f) : f \in [1..MaxUpserts -> AllUpserts]}

EmptyCache == [banks |-> EmptyMap, accounts |-> EmptyMap,
               account_to_health |-> EmptyMap]

\* the update() call of one upsert on the three maps
ApplyUpsert(c, u) ==
    IF u.kind = "bank"
    THEN [c EXCEPT !.banks = BanksCacheUpdate(c.banks, u.slot, u.address, u.value)]
    ELSE LET r == MarginfiAccountsCacheUpdate(c.accounts, c.account_to_health,
                                              u.slot, u.address, u.value)
         IN [c EXCEPT !.accounts = r.accounts,
                      !.account_to_health = r.account_to_health]

InitOrd ==
    /\ EmptyCaches /\ IdleLock /\ IdleSched /\ IdleSvc
    /\ upserts \in UpsertSets
    /\ appliedA = <<>>
    /\ appliedB = <<>>
    /\ cacheB = EmptyCache

\* the next write of the first serialization
ApplyA(u) ==
    /\ u \in upserts \ Range(appliedA)
    /\ LET c == ApplyUpsert([banks |-> banks, accounts |-> accounts,
                             account_to_health |-> account_to_health], u)
       IN /\ banks' = c.banks
          /\ accounts' = c.accounts
          /\ account_to_health' = c.account_to_health
    /\ appliedA' = Append(appliedA, u)
    /\ UNCHANGED <<lastOp, appliedB, cacheB, upserts, lockVars, schedVars, svcVars>>

\* the next write of the second serialization
ApplyB(u) ==
    /\ u \in upserts \ Range(appliedB)
    /\ cacheB' = ApplyUpsert(cacheB, u)
    /\ appliedB' = Append(appliedB, u)
    /\ UNCHANGED <<cacheVars, lastOp, appliedA, upserts, lockVars, schedVars,
                   svcVars>>

NextOrd ==
    \/ \E u \in AllUpserts : ApplyA(u)
    \/ \E u \in AllUpserts : ApplyB(u)

SpecOrd == InitOrd /\ [][NextOrd]_vars

----------------------------------------------------------------------------
(* SpecLock: MarginfiAccountsCache::update step by step, called by the    *)
(* Bootstrap Loader and the Ingestion Processor threads, with the         *)
(* Liquidation Scheduler thread reading through get_account and           *)
(* get_accounts_with_health                                               *)

Writers == {"loader", "processor"}
Readers == {"scheduler"}

NoArgs == [slot |-> 0, address |-> DefaultPubkey, account |-> None]

FreeLock == [writer |-> Nobody, readers |-> {}]

\* RwLock::write returns once no thread holds the lock
CanWrite(lock) == lock.writer = Nobody /\ lock.readers = {}

\* RwLock::read returns once no writer holds the lock
CanRead(lock) == lock.writer = Nobody

InitLock ==
    /\ EmptyCaches /\ IdleOrd /\ IdleSched /\ IdleSvc
    /\ wpc = [t \in Writers |-> "idle"]
    /\ wargs = [t \in Writers |-> NoArgs]
    /\ rpc = [r \in Readers |-> "idle"]
    /\ accountsLock = FreeLock
    /\ healthLock = FreeLock
    /\ IdleKind

\* update() is entered: the cached account and its health are computed
\* before any lock is taken
UpdCall(t, slot, address, account) ==
    /\ wpc[t] = "idle"
    /\ wargs' = [wargs EXCEPT ![t] = [slot |-> slot, address |-> address,
                                      account |-> account]]
    /\ wpc' = [wpc EXCEPT ![t] = "lock_accounts"]
    /\ UNCHANGED <<cacheVars, lastOp, rpc, accountsLock, healthLock>>

\* let mut accounts = self.accounts.write()
UpdLockAccounts(t) ==
    /\ wpc[t] = "lock_accounts"
    /\ CanWrite(accountsLock)
    /\ accountsLock' = [accountsLock EXCEPT !.writer = t]
    /\ wpc' = [wpc EXCEPT ![t] = "lock_health"]
    /\ UNCHANGED <<cacheVars, lastOp, wargs, rpc, healthLock>>

\* fault: the accounts map is modified without the Health-Index lock
UpdLockHealth_NotTaken(t) ==
    /\ wpc[t] = "lock_health"
    /\ wpc' = [wpc EXCEPT ![t] = "check"]
    /\ UNCHANGED <<cacheVars, lastOp, wargs, rpc, accountsLock, healthLock>>

\* let mut health = self.account_to_health.write()
UpdLockHealth(t) ==
    /\ wpc[t] = "lock_health"
    /\ CanWrite(healthLock)
    /\ healthLock' = [healthLock EXCEPT !.writer = t]
    /\ wpc' = [wpc EXCEPT ![t] = "check"]
    /\ UNCHANGED <<cacheVars, lastOp, wargs, rpc, accountsLock>>

\* the slot check and accounts.insert(address, upd_cached_account)
UpdInsertAccount(t) ==
    /\ wpc[t] = "check"
    /\ IF IsNewer(accounts, wargs[t].address, wargs[t].slot)
       THEN /\ accounts' = MapInsert(accounts, wargs[t].address,
                              CachedMarginfiAccountFrom(wargs[t].slot,
                                  wargs[t].address, wargs[t].account))
            /\ wpc' = [wpc EXCEPT ![t] = "insert_health"]
       ELSE /\ accounts' = accounts
            /\ wpc' = [wpc EXCEPT ![t] = "drop_health"]
    /\ UNCHANGED <<banks, account_to_health, lastOp, wargs, rpc,
                   accountsLock, healthLock>>

\* the match on the health: health.insert(address, ...)
UpdInsertHealth(t) ==
    /\ wpc[t] = "insert_health"
    /\ account_to_health' =
          MapInsert(account_to_health, wargs[t].address,
              HealthEntry(health(CachedMarginfiAccountFrom(wargs[t].slot,
                                     wargs[t].address, wargs[t].account))))
    /\ wpc' = [wpc EXCEPT ![t] = "drop_health"]
    /\ UNCHANGED <<banks, accounts, lastOp, wargs, rpc, accountsLock, healthLock>>

\* update() returns: the guards are dropped in reverse order of declaration,
\* health first
UpdDropHealth(t) ==
    /\ wpc[t] = "drop_health"
    /\ healthLock' = [healthLock EXCEPT
                        !.writer = IF @ = t THEN Nobody ELSE @]
    /\ wpc' = [wpc EXCEPT ![t] = "drop_accounts"]
    /\ UNCHANGED <<cacheVars, lastOp, wargs, rpc, accountsLock>>

UpdDropAccounts(t) ==
    /\ wpc[t] = "drop_accounts"
    /\ accountsLock' = [accountsLock EXCEPT !.writer = Nobody]
    /\ wpc' = [wpc EXCEPT ![t] = "idle"]
    /\ wargs' = [wargs EXCEPT ![t] = NoArgs]
    /\ UNCHANGED <<cacheVars, lastOp, rpc, healthLock>>

\* get_account: self.accounts.read()
GetAccountLock(r) ==
    /\ rpc[r] = "idle"
    /\ CanRead(accountsLock)
    /\ accountsLock' = [accountsLock EXCEPT !.readers = @ \cup {r}]
    /\ rpc' = [rpc EXCEPT ![r] = "read_accounts"]
    /\ UNCHANGED <<cacheVars, lastOp, wpc, wargs, healthLock>>

\* get_account returns the clone and drops the read guard
GetAccountUnlock(r) ==
    /\ rpc[r] = "read_accounts"
    /\ accountsLock' = [accountsLock EXCEPT !.readers = @ \ {r}]
    /\ rpc' = [rpc EXCEPT ![r] = "idle"]
    /\ UNCHANGED <<cacheVars, lastOp, wpc, wargs, healthLock>>

\* get_accounts_with_health: self.account_to_health.read()
GetHealthLock(r) ==
    /\ rpc[r] = "idle"
    /\ CanRead(healthLock)
    /\ healthLock' = [healthLock EXCEPT !.readers = @ \cup {r}]
    /\ rpc' = [rpc EXCEPT ![r] = "read_health"]
    /\ UNCHANGED <<cacheVars, lastOp, wpc, wargs, accountsLock>>

\* get_accounts_with_health returns the clone and drops the read guard
GetHealthUnlock(r) ==
    /\ rpc[r] = "read_health"
    /\ healthLock' = [healthLock EXCEPT !.readers = @ \ {r}]
    /\ rpc' = [rpc EXCEPT ![r] = "idle"]
    /\ UNCHANGED <<cacheVars, lastOp, wpc, wargs, accountsLock>>

NextLock ==
    \/ \E t \in Writers, s \in Slots, a \in Address, m \in AccountValues :
          UpdCall(t, s, a, m) /\ UNCHANGED <<ordVars, schedVars, svcVars, kindVars>>
    \/ \E t \in Writers : UpdLockAccounts(t) /\ UNCHANGED <<ordVars, schedVars, svcVars, kindVars>>
    \/ \E t \in Writers : UpdLockHealth(t) /\ UNCHANGED <<ordVars, schedVars, svcVars, kindVars>>
    \/ \E t \in Writers : UpdInsertAccount(t) /\ UNCHANGED <<ordVars, schedVars, svcVars, kindVars>>
    \/ \E t \in Writers : UpdInsertHealth(t) /\ UNCHANGED <<ordVars, schedVars, svcVars, kindVars>>
    \/ \E t \in Writers : UpdDropHealth(t) /\ UNCHANGED <<ordVars, schedVars, svcVars, kindVars>>
    \/ \E t \in Writers : UpdDropAccounts(t) /\ UNCHANGED <<ordVars, schedVars, svcVars, kindVars>>
    \/ \E r \in Readers : GetAccountLock(r) /\ UNCHANGED <<ordVars, schedVars, svcVars, kindVars>>
    \/ \E r \in Readers : GetAccountUnlock(r) /\ UNCHANGED <<ordVars, schedVars, svcVars, kindVars>>
    \/ \E r \in Readers : GetHealthLock(r) /\ UNCHANGED <<ordVars, schedVars, svcVars, kindVars>>
    \/ \E r \in Readers : GetHealthUnlock(r) /\ UNCHANGED <<ordVars, schedVars, svcVars, kindVars>>

SpecLock == InitLock /\ [][NextLock]_vars

----------------------------------------------------------------------------
(* SpecGuards: every cache call of the main thread (load_cache, log_stats), *)
(* the GeyserProcessor, the GeyserSubscriber and the LiquidationService,    *)
(* one step per lock taken and per return                                  *)

GuardThreads == Writers \cup {"subscriber", "scheduler"}

\* the RwLocks of Cache other than the two of MarginfiAccountsCache
KindLockNames == {"clock", "banks", "mints", "oracles", "luts"}

LockNames == {"accounts", "account_to_health"} \cup KindLockNames

\* a call of a cache function: the locks it takes, in order, and how many of
\* them it holds
CacheCall(fn, locks, mode) == [fn |-> fn, locks |-> locks, mode |-> mode, held |-> 0]

NoCall == CacheCall("none", <<>>, "none")

\* the main thread: load_accounts, load_mints, load_oracles, load_luts, then
\* log_stats
LoaderCalls ==
    { CacheCall("Cache::get_clock", <<"clock">>, "read"),
      CacheCall("BanksCache::update", <<"banks">>, "write"),
      CacheCall("BanksCache::get_mints", <<"banks">>, "read"),
      CacheCall("MintsCache::update", <<"mints">>, "write"),
      CacheCall("BanksCache::get_oracles_data", <<"banks">>, "read"),
      CacheCall("OraclesCache::insert", <<"oracles">>, "write"),
      CacheCall("LutsCache::populate", <<"luts">>, "write") }

\* GeyserProcessor::process_message
ProcessorCalls ==
    { CacheCall("Cache::update_clock", <<"clock">>, "write"),
      CacheCall("BanksCache::update", <<"banks">>, "write"),
      CacheCall("OraclesCache::update", <<"oracles">>, "write") }

\* GeyserSubscriber::run and handle_event
SubscriberCalls ==
    { CacheCall("OraclesCache::get_oracle_addresses", <<"oracles">>, "read"),
      CacheCall("Cache::get_clock", <<"clock">>, "read") }

\* fault: get_accounts_with_health looks every address up in accounts while
\* it holds the guard of account_to_health
SchedulerCalls_NestedGuards ==
    { CacheCall("MarginfiAccountsCache::get_accounts_with_health",
                <<"account_to_health", "accounts">>, "read"),
      CacheCall("MarginfiAccountsCache::get_account", <<"accounts">>, "read"),
      CacheCall("BanksCache::get", <<"banks">>, "read"),
      CacheCall("MintsCache::get", <<"mints">>, "read") }

\* LiquidationService::run, process_account and the strategy
SchedulerCalls ==
    { CacheCall("MarginfiAccountsCache::get_accounts_with_health",
                <<"account_to_health">>, "read"),
      CacheCall("MarginfiAccountsCache::get_account", <<"accounts">>, "read"),
      CacheCall("BanksCache::get", <<"banks">>, "read"),
      CacheCall("MintsCache::get", <<"mints">>, "read") }

CacheCalls(t) ==
    IF t = "loader" THEN LoaderCalls
    ELSE IF t = "processor" THEN ProcessorCalls
    ELSE IF t = "subscriber" THEN SubscriberCalls
    ELSE SchedulerCalls

Lock(name) ==
    IF name = "accounts" THEN accountsLock
    ELSE IF name = "account_to_health" THEN healthLock
    ELSE kindLocks[name]

CanTake(lock, mode) == IF mode = "write" THEN CanWrite(lock) ELSE CanRead(lock)

\* the guard is created
Taken(lock, t, mode) ==
    IF mode = "write" THEN [lock EXCEPT !.writer = t]
    ELSE [lock EXCEPT !.readers = @ \cup {t}]

\* the guard is dropped
Dropped(lock, t) ==
    [writer |-> IF lock.writer = t THEN Nobody ELSE lock.writer,
     readers |-> lock.readers \ {t}]

InitGuards ==
    /\ EmptyCaches /\ IdleOrd /\ IdleSched /\ IdleSvc
    /\ wpc = [t \in Writers |-> "idle"]
    /\ wargs = [t \in Writers |-> NoArgs]
    /\ rpc = EmptyMap
    /\ accountsLock = FreeLock
    /\ healthLock = FreeLock
    /\ kindLocks = [name \in KindLockNames |-> FreeLock]
    /\ kpc = [t \in GuardThreads |-> NoCall]

\* the thread enters a cache function
GuardCall(t, call) ==
    /\ kpc[t] = NoCall
    /\ t \in Writers => wpc[t] = "idle"
    /\ kpc' = [kpc EXCEPT ![t] = call]
    /\ UNCHANGED <<cacheVars, lastOp, wpc, wargs, rpc, accountsLock, healthLock,
                   kindLocks>>

\* RwLock::read or RwLock::write returns the next guard of the call
GuardTake(t) ==
    /\ kpc[t].held < Len(kpc[t].locks)
    /\ LET name == kpc[t].locks[kpc[t].held + 1]
           lock == Taken(Lock(name), t, kpc[t].mode)
       IN /\ CanTake(Lock(name), kpc[t].mode)
          /\ accountsLock' = IF name = "accounts" THEN lock ELSE accountsLock
          /\ healthLock' = IF name = "account_to_health" THEN lock ELSE healthLock
          /\ kindLocks' = IF name \in KindLockNames
                          THEN [kindLocks EXCEPT ![name] = lock] ELSE kindLocks
    /\ kpc' = [kpc EXCEPT ![t].held = @ + 1]
    /\ UNCHANGED <<cacheVars, lastOp, wpc, wargs, rpc>>

\* the function returns and its guards are dropped
GuardReturn(t) ==
    /\ kpc[t] # NoCall
    /\ kpc[t].held = Len(kpc[t].locks)
    /\ accountsLock' = Dropped(accountsLock, t)
    /\ healthLock' = Dropped(healthLock, t)
    /\ kindLocks' = [name \in KindLockNames |-> Dropped(kindLocks[name], t)]
    /\ kpc' = [kpc EXCEPT ![t] = NoCall]
    /\ UNCHANGED <<cacheVars, lastOp, wpc, wargs, rpc>>

\* MarginfiAccountsCache::update is entered by a thread that is in no other
\* cache function
GuardUpdCall(t, account) ==
    /\ kpc[t] = NoCall
    /\ UpdCall(t, 1, "A1", account)

\* the Position every update() of this specification writes
GuardAccounts == {MkAccount(1000, 1500, <<Balance(1, "A2")>>)}

GuardsUnchanged == UNCHANGED <<ordVars, schedVars, svcVars>>

NextGuards ==
    \/ \E t \in GuardThreads : \E call \in CacheCalls(t) :
          GuardCall(t, call) /\ GuardsUnchanged
    \/ \E t \in GuardThreads : GuardTake(t) /\ GuardsUnchanged
    \/ \E t \in GuardThreads : GuardReturn(t) /\ GuardsUnchanged
    \/ \E t \in Writers : \E account \in GuardAccounts :
          GuardUpdCall(t, account) /\ UNCHANGED kindVars /\ GuardsUnchanged
    \/ \E t \in Writers : UpdLockAccounts(t) /\ UNCHANGED kindVars /\ GuardsUnchanged
    \/ \E t \in Writers : UpdLockHealth(t) /\ UNCHANGED kindVars /\ GuardsUnchanged
    \/ \E t \in Writers : UpdInsertAccount(t) /\ UNCHANGED kindVars /\ GuardsUnchanged
    \/ \E t \in Writers : UpdInsertHealth(t) /\ UNCHANGED kindVars /\ GuardsUnchanged
    \/ \E t \in Writers : UpdDropHealth(t) /\ UNCHANGED kindVars /\ GuardsUnchanged
    \/ \E t \in Writers : UpdDropAccounts(t) /\ UNCHANGED kindVars /\ GuardsUnchanged

SpecGuards == InitGuards /\ [][NextGuards]_vars

----------------------------------------------------------------------------
(* SpecSched: LiquidationService::run, one step per loop iteration, while *)
(* the Ingestion Processor keeps writing Positions                        *)

SchedAddress == {"A1", "A2", "A3"}

\* slots of the Position events that arrive while the scheduler runs
MaxSchedSlot == 1
SchedSlots == 1..MaxSchedSlot

\* the bits of an i64 score read as a u64, at the model's width
AsU64(score) == score % (2 ^ HealthBits)

\* the orders in which a Vec can hold the keys of map
KeyOrders(map) ==
    {p \in [1..Cardinality(DOMAIN map) -> DOMAIN map] : Range(p) = DOMAIN map}

\* sort_accounts_by_health: the pairs of the map, collected in the map's
\* iteration order and stably sorted by |a, b| b.1.cmp(&a.1) on u64 scores;
\* every order the iteration order of the HashMap allows
sort_accounts_by_health(accounts_by_health) ==
    {p \in KeyOrders(accounts_by_health) :
        \A i \in 1..Len(p), j \in 1..Len(p) :
            i < j => AsU64(accounts_by_health[p[i]]) >= AsU64(accounts_by_health[p[j]])}

\* what process_account can do for an address: the Position lookup
\* (get_account) fails, prepare fails, prepare returns None, liquidate
\* succeeds or fails; choose_liquidation_strategy always returns Ok
ProcessOutcomes(address) ==
    IF address \notin DOMAIN accounts
    THEN {"lookup_err"}
    ELSE {"prepare_err", "not_eligible", "liquidated", "liquidate_err"}

\* the Result process_account returns
ProcessResult(outcome) ==
    IF outcome \in {"not_eligible", "liquidated"} THEN "Ok" ELSE "Err"

InitSched ==
    /\ EmptyCaches /\ IdleOrd /\ IdleLock /\ IdleSvc
    /\ stop = FALSE
    /\ lqpc = "loop"
    /\ snapshot = EmptyMap
    /\ sorted_accounts = <<>>
    /\ idx = 0
    /\ visited = <<>>

\* while !self.stop.load(Ordering::Relaxed)
LqLoop ==
    /\ lqpc = "loop"
    /\ lqpc' = IF stop THEN "returned" ELSE "cycle"
    /\ UNCHANGED <<cacheVars, stop, snapshot, sorted_accounts, idx, visited>>

\* get_accounts_with_health() and sort_accounts_by_health(), the Ok arm:
\* the account_to_health lock is not poisoned (update(), its only writer in
\* the program, has no panicking step while it holds the lock)
LqSnapshot ==
    /\ lqpc = "cycle"
    /\ "account_to_health" \notin poisoned
    /\ snapshot' = account_to_health
    /\ sorted_accounts' \in sort_accounts_by_health(account_to_health)
    /\ idx' = 0
    /\ visited' = <<>>
    /\ lqpc' = "visit"
    /\ UNCHANGED <<cacheVars, stop>>

\* fault: an error of process_account ends the cycle
LqProcessAccount_AbortOnError ==
    /\ lqpc = "visit"
    /\ idx < Len(sorted_accounts)
    /\ \E outcome \in ProcessOutcomes(sorted_accounts[idx + 1]) :
          /\ visited' = Append(visited,
                [address |-> sorted_accounts[idx + 1],
                 result |-> ProcessResult(outcome)])
          /\ lqpc' = IF ProcessResult(outcome) = "Err" THEN "sleep" ELSE "visit"
    /\ idx' = idx + 1
    /\ UNCHANGED <<cacheVars, stop, snapshot, sorted_accounts>>

\* one iteration of the for loop: process_account(account_address), its
\* error logged
LqProcessAccount ==
    /\ lqpc = "visit"
    /\ idx < Len(sorted_accounts)
    /\ \E outcome \in ProcessOutcomes(sorted_accounts[idx + 1]) :
          visited' = Append(visited,
                [address |-> sorted_accounts[idx + 1],
                 result |-> ProcessResult(outcome)])
    /\ idx' = idx + 1
    /\ UNCHANGED <<cacheVars, stop, lqpc, snapshot, sorted_accounts>>

\* the for loop is exhausted: the cycle is completed
LqCycleDone ==
    /\ lqpc = "visit"
    /\ idx = Len(sorted_accounts)
    /\ lqpc' = "sleep"
    /\ UNCHANGED <<cacheVars, stop, snapshot, sorted_accounts, idx, visited>>

\* std::thread::sleep returns; the locals of the cycle are gone
LqSleep ==
    /\ lqpc = "sleep"
    /\ lqpc' = "loop"
    /\ snapshot' = EmptyMap
    /\ sorted_accounts' = <<>>
    /\ idx' = 0
    /\ visited' = <<>>
    /\ UNCHANGED <<cacheVars, stop>>

\* the stop flag is set from outside
SetStop ==
    /\ ~stop
    /\ stop' = TRUE
    /\ UNCHANGED <<cacheVars, lqpc, snapshot, sorted_accounts, idx, visited>>

\* the Ingestion Processor applies a Position event
SchedAccountsUpdate(slot, address, account) ==
    /\ AccountsUpdate(slot, address, account)
    /\ UNCHANGED schedVars

NextSched ==
    \/ LqLoop /\ UNCHANGED <<lastOp, ordVars, lockVars, svcVars>>
    \/ LqSnapshot /\ UNCHANGED <<lastOp, ordVars, lockVars, svcVars>>
    \/ LqProcessAccount /\ UNCHANGED <<lastOp, ordVars, lockVars, svcVars>>
    \/ LqCycleDone /\ UNCHANGED <<lastOp, ordVars, lockVars, svcVars>>
    \/ LqSleep /\ UNCHANGED <<lastOp, ordVars, lockVars, svcVars>>
    \/ SetStop /\ UNCHANGED <<lastOp, ordVars, lockVars, svcVars>>
    \/ \E s \in SchedSlots, a \in SchedAddress, m \in AccountValues :
          SchedAccountsUpdate(s, a, m) /\ UNCHANGED <<lastOp, ordVars, lockVars, svcVars>>

SpecSched == InitSched /\ [][NextSched]_vars

----------------------------------------------------------------------------
(* SpecVisit: the cycle of LiquidationService::run with the Position that   *)
(* process_account reads for every address, while the Ingestion Processor  *)
(* writes Positions at any slot                                            *)

\* MarginfiAccountsCache::get_account: the clone of the cached account, or
\* None for the error of an address that is not cached
get_account(acc, address) ==
    IF address \in DOMAIN acc THEN Some(acc[address]) ELSE None

\* the snapshot was taken when the cached Positions had these slots
SnapshotOp(slots) == [NoOp EXCEPT !.kind = "snapshot", !.value = slots]

InitVisit == InitSched

\* get_accounts_with_health() and sort_accounts_by_health()
VisitSnapshot ==
    /\ LqSnapshot
    /\ lastOp' = SnapshotOp([a \in DOMAIN accounts |-> accounts[a].slot])

\* one iteration of the for loop: process_account reads the Position of the
\* address and hands it to the strategy
VisitProcessAccount ==
    /\ lqpc = "visit"
    /\ idx < Len(sorted_accounts)
    /\ LET address == sorted_accounts[idx + 1]
           account == get_account(accounts, address)
       IN \E outcome \in (IF IsSome(account)
                          THEN {"prepare_err", "not_eligible", "liquidated",
                                "liquidate_err"}
                          ELSE {"lookup_err"}) :
             visited' = Append(visited,
                   [address |-> address, result |-> ProcessResult(outcome),
                    account |-> account])
    /\ idx' = idx + 1
    /\ UNCHANGED <<cacheVars, lastOp, stop, lqpc, snapshot, sorted_accounts>>

VisitUnchanged == UNCHANGED <<ordVars, lockVars, svcVars>>

NextVisit ==
    \/ LqLoop /\ UNCHANGED lastOp /\ VisitUnchanged
    \/ VisitSnapshot /\ VisitUnchanged
    \/ VisitProcessAccount /\ VisitUnchanged
    \/ LqCycleDone /\ UNCHANGED lastOp /\ VisitUnchanged
    \/ LqSleep /\ UNCHANGED lastOp /\ VisitUnchanged
    \/ SetStop /\ UNCHANGED lastOp /\ VisitUnchanged
    \/ \E s \in Slots, a \in Address, m \in AccountValues :
          SchedAccountsUpdate(s, a, m) /\ UNCHANGED lastOp /\ VisitUnchanged

SpecVisit == InitVisit /\ [][NextVisit]_vars

----------------------------------------------------------------------------
(* OraclesCache *)

\* account data of an oracle: its length (below 8 bytes, at least 8 bytes
\* but shorter than discriminator plus feed, or complete), its
\* discriminator and the price it carries
OracleData(len, disc, price) == [len |-> len, disc |-> disc, price |-> price]

PythData(price) == OracleData("full", "pyth", price)
SwbData(price) == OracleData("full", "swb", price)
TinyData == OracleData("lt8", "none", 0)
ShortSwbData == OracleData("short", "swb", 0)
ShortPythData == OracleData("short", "pyth", 0)
WrongDiscData == OracleData("full", "none", 0)

\* Result<T> with the message of its error, and the panic of a slice index
\* out of range
Ok(v) == [tag |-> "Ok", val |-> <<v>>]
Err(msg) == [tag |-> "Err", val |-> <<msg>>]
Panic == [tag |-> "Panic", val |-> <<>>]

\* fault: the length check is left out
parse_swb_adapter_NoLengthCheck(data) ==
    IF data.disc # "swb" THEN Err("InvalidDiscriminator")
    ELSE IF data.len # "full" THEN Panic
    ELSE Ok([price |-> data.price])

\* data[8..8 + size_of::<PullFeedAccountData>()] panics when data is shorter
parse_swb_adapter(data) ==
    IF data.len = "lt8" THEN Err("InvalidLength")
    ELSE IF data.disc # "swb" THEN Err("InvalidDiscriminator")
    ELSE IF data.len # "full" THEN Panic
    ELSE Ok([price |-> data.price])

\* PythPushOraclePriceFeed::load_unchecked of the marginfi crate: it checks
\* the first 8 bytes against the PriceUpdateV2 discriminator and then
\* deserializes the rest, returning an error for either failure
load_unchecked(ai) ==
    IF ai.disc # "pyth" THEN Err("InvalidDiscriminator")
    ELSE IF ai.len # "full" THEN Err("Deserialize")
    ELSE Ok([price |-> ai.price])

parse_pyth_adapter(address, account) ==
    IF account.len = "lt8" THEN Err("InvalidLength")
    ELSE load_unchecked(account)

CachedPriceAdapterFrom(slot, oracle_type, address, account) ==
    LET adapter ==
            CASE oracle_type = "SwitchboardPull" -> parse_swb_adapter(account)
              [] oracle_type = "PythPushOracle" -> parse_pyth_adapter(address, account)
              [] OTHER -> Err("UnsupportedOracleType")
    IN IF adapter.tag = "Ok"
       THEN Ok([slot |-> slot, _adapter |-> Unwrap(adapter.val)])
       ELSE adapter

CachedOracleFrom(address, oracle_type, adapter) ==
    [_address |-> address, _oracle_type |-> oracle_type, adapter |-> adapter]

\* OraclesCache::insert: the adapter is parsed before the lock is taken, and
\* the entry is stored whatever the map holds
OraclesCacheInsert(os, slot, address, oracle_type, account) ==
    LET r == CachedPriceAdapterFrom(slot, oracle_type, address, account)
        adapter == IF r.tag = "Ok" THEN Some(Unwrap(r.val)) ELSE None
    IN MapInsert(os, address, CachedOracleFrom(address, oracle_type, adapter))

InsertPanics(slot, address, oracle_type, account) ==
    CachedPriceAdapterFrom(slot, oracle_type, address, account).tag = "Panic"

\* cached_oracle.adapter.as_ref().map_or(0, |a| a.slot)
AdapterSlot(cached_oracle) ==
    IF IsSome(cached_oracle.adapter) THEN Unwrap(cached_oracle.adapter).slot ELSE 0

\* fault: an update at the stored slot is accepted
OracleIsNewer_OrEqual(cached_oracle, slot) == slot >= AdapterSlot(cached_oracle)

\* slot > cached_oracle.adapter.as_ref().map_or(0, |a| a.slot)
OracleIsNewer(cached_oracle, slot) == slot > AdapterSlot(cached_oracle)

\* OraclesCache::update
OraclesCacheUpdate(os, slot, address, account) ==
    IF address \in DOMAIN os /\ OracleIsNewer(os[address], slot)
    THEN LET r == CachedPriceAdapterFrom(slot, os[address]._oracle_type,
                                         address, account)
         IN IF r.tag = "Ok"
            THEN [os EXCEPT ![address].adapter = Some(Unwrap(r.val))]
            ELSE os
    ELSE os

\* the parse inside update() panics, while update() holds the write lock
UpdatePanics(os, slot, address, account) ==
    /\ address \in DOMAIN os
    /\ OracleIsNewer(os[address], slot)
    /\ CachedPriceAdapterFrom(slot, os[address]._oracle_type,
                              address, account).tag = "Panic"

\* OraclesCache::get
OraclesCacheGet(os, address) ==
    IF address \in DOMAIN os THEN Some(os[address]) ELSE None

\* OraclesCache::get_oracle_addresses: the keys of the map, in any order
get_oracle_addresses(os) == DOMAIN os

----------------------------------------------------------------------------
(* SpecOracle: CacheLoader::load_oracles, one step per insert, while the   *)
(* GeyserSubscriber streams oracle accounts and the GeyserProcessor        *)
(* applies them with OraclesCache::update                                  *)

OracleAddress == {"O1", "O2", "O3"}

BankWith(mint) == CHOOSE b \in BankValues : b.mint = mint

\* the Banks cache load_accounts has left: one Pool with two oracles, or
\* two Pools that share one oracle
LoadedBanks ==
    { ("A1" :> CachedBankFrom(1, "A1", BankWith("M1"))),
      ("A1" :> CachedBankFrom(1, "A1", BankWith("M2")))
        @@ ("A2" :> CachedBankFrom(1, "A2", BankWith("M2"))) }

\* the account data an RPC node returns for an oracle address
RpcOracleData == {PythData(1), SwbData(1), ShortSwbData}

\* the account data of the streamed oracle events
StreamOracleData == {PythData(1), PythData(2), SwbData(2), TinyData, ShortSwbData}

\* comms_client.get_accounts(&oracle_addresses): an account for some of the
\* addresses asked for
RpcResults(addresses) ==
    UNION {[d -> RpcOracleData] : d \in SUBSET addresses}

\* BanksCache::get_oracles_data in one of the orders HashMap::values allows
get_oracles_data(bs) ==
    {[i \in 1..Len(p) |-> bs[p[i]].oracle] : p \in KeyOrders(bs)}

\* the pairs the two nested for loops of load_oracles go through
RECURSIVE OracleInserts(_, _)
OracleInserts(oracles_data, slot) ==
    IF oracles_data = <<>> THEN <<>>
    ELSE LET oracle_data == Head(oracles_data)
         IN [i \in 1..Len(oracle_data.oracle_addresses) |->
                [slot |-> slot,
                 address |-> oracle_data.oracle_addresses[i],
                 oracle_type |-> oracle_data.oracle_type]]
            \o OracleInserts(Tail(oracles_data), slot)

InitOracle ==
    /\ banks \in LoadedBanks
    /\ accounts = EmptyMap /\ account_to_health = EmptyMap /\ lastOp = NoOp
    /\ IdleOrd /\ IdleLock /\ IdleSched /\ IdleGp /\ IdlePa /\ IdleBoot
    /\ oracles = EmptyMap
    /\ clock = [slot |-> 1]
    /\ exited = FALSE
    /\ ldpc = "start"
    /\ ldTodo = <<>>
    /\ oracle_accounts = EmptyMap
    /\ oracle_addresses = None
    /\ mainpc = "load_cache"

\* load_oracles up to its loops: the slot of the cached clock, the oracles
\* of the cached banks and their accounts; an RPC failure ends load_cache
LoadOraclesStart ==
    /\ ~exited
    /\ ldpc = "start"
    /\ \/ /\ \E oracles_data \in get_oracles_data(banks) :
                /\ ldTodo' = OracleInserts(oracles_data, clock.slot)
                /\ oracle_accounts' \in
                      RpcResults({ldTodo'[i].address : i \in 1..Len(ldTodo')})
          /\ ldpc' = "insert"
       \/ /\ ldpc' = "failed"
          /\ UNCHANGED <<ldTodo, oracle_accounts>>
    /\ lastOp' = [NoOp EXCEPT !.kind = "load_oracles"]
    /\ UNCHANGED <<cacheVars, oracles, clock, exited, oracle_addresses>>

\* one iteration of the inner for loop of load_oracles
LoadOraclesInsert ==
    /\ ~exited
    /\ ldpc = "insert"
    /\ ldTodo # <<>>
    /\ LET next == Head(ldTodo) IN
       IF next.address \in DOMAIN oracle_accounts
       THEN LET account == oracle_accounts[next.address] IN
            /\ lastOp' = Op("oracle_insert", next.slot, next.address, account, TRUE)
            /\ IF InsertPanics(next.slot, next.address, next.oracle_type, account)
               THEN exited' = TRUE /\ UNCHANGED oracles
               ELSE /\ oracles' = OraclesCacheInsert(oracles, next.slot, next.address,
                                                     next.oracle_type, account)
                    /\ UNCHANGED exited
       ELSE /\ lastOp' = [NoOp EXCEPT !.kind = "oracle_missing"]
            /\ UNCHANGED <<oracles, exited>>
    /\ ldTodo' = Tail(ldTodo)
    /\ UNCHANGED <<cacheVars, clock, ldpc, oracle_accounts, oracle_addresses>>

\* load_oracles returns Ok
LoadOraclesDone ==
    /\ ~exited
    /\ ldpc = "insert"
    /\ ldTodo = <<>>
    /\ ldpc' = "done"
    /\ lastOp' = [NoOp EXCEPT !.kind = "load_oracles_done"]
    /\ UNCHANGED <<cacheVars, oracles, clock, exited, ldTodo, oracle_accounts,
                   oracle_addresses>>

\* GeyserSubscriber::run reads the oracle addresses of the cache, once
SubscriberRun ==
    /\ ~exited
    /\ oracle_addresses = None
    /\ oracle_addresses' = Some(DOMAIN oracles)
    /\ lastOp' = [NoOp EXCEPT !.kind = "subscribe"]
    /\ UNCHANGED <<cacheVars, oracles, clock, exited, ldpc, ldTodo, oracle_accounts>>

\* handle_event passes on an oracle account of a subscribed address whose
\* slot is not below the cached clock's, and process_message applies it
\* with OraclesCache::update; a panic of the parse ends the process
OracleEvent(slot, address, account) ==
    /\ ~exited
    /\ IsSome(oracle_addresses)
    /\ address \in Unwrap(oracle_addresses)
    /\ slot >= clock.slot
    /\ lastOp' = Op("oracle_update", slot, address, account,
                    address \in DOMAIN oracles /\ OracleIsNewer(oracles[address], slot))
    /\ IF UpdatePanics(oracles, slot, address, account)
       THEN exited' = TRUE /\ UNCHANGED oracles
       ELSE /\ oracles' = OraclesCacheUpdate(oracles, slot, address, account)
            /\ UNCHANGED exited
    /\ UNCHANGED <<cacheVars, clock, ldpc, ldTodo, oracle_accounts, oracle_addresses>>

OracleUnchanged ==
    UNCHANGED <<ordVars, lockVars, schedVars, gpVars, paVars, mainpc, bootVars>>

NextOracle ==
    \/ LoadOraclesStart /\ OracleUnchanged
    \/ LoadOraclesInsert /\ OracleUnchanged
    \/ LoadOraclesDone /\ OracleUnchanged
    \/ SubscriberRun /\ OracleUnchanged
    \/ \E s \in Slots, a \in OracleAddress, d \in StreamOracleData :
          OracleEvent(s, a, d) /\ OracleUnchanged

SpecOracle == InitOracle /\ [][NextOracle]_vars

----------------------------------------------------------------------------
(* SpecIngest: GeyserProcessor::run, one step per evaluation of the loop   *)
(* condition and per return of recv, with the sending side of the channel  *)

\* number of messages the sending side sends
MaxEvents == 2

\* number of failed receives the history records
MaxRecvErrs == 2

\* slots of the streamed events
MaxIngestSlot == 2
IngestSlots == 1..MaxIngestSlot

\* GeyserMessage; data is the value the account bytes deserialize to, or
\* None for bytes that do not deserialize
GeyserMessage(message_type, slot, address, data) ==
    [message_type |-> message_type, slot |-> slot, address |-> address,
     data |-> data]

NoMessage == GeyserMessage("none", 0, DefaultPubkey, None)

GeyserMessages ==
    {GeyserMessage("Clock", s, "SysvarClock", Some([slot |-> s])) : s \in IngestSlots}
    \cup {GeyserMessage("Clock", 1, "SysvarClock", None)}
    \cup {GeyserMessage("MarginfiAccount", s, "A1", Some(MkAccount(1000, 500, <<>>))) :
            s \in IngestSlots}
    \cup {GeyserMessage("MarginfiAccount", MaxIngestSlot, "A1", None)}
    \cup {GeyserMessage("Bank", 1, "A1", Some(BankWith("M1"))),
          GeyserMessage("Bank", MaxIngestSlot, "A1", None)}
    \cup {GeyserMessage("Oracle", s, "O3", SwbData(2)) : s \in IngestSlots}
    \cup {GeyserMessage("Oracle", MaxIngestSlot, "O3", ShortSwbData)}

\* the caches process_message works on
IngestCache ==
    [clock |-> clock, banks |-> banks, accounts |-> accounts,
     account_to_health |-> account_to_health, oracles |-> oracles]

Processed(cache, result) == [cache |-> cache, result |-> result]

\* fault: a Pool event also refreshes the cached Mint of the Pool
process_message_BankRefreshesMint(c, msg) ==
    CASE msg.message_type = "Clock" ->
            IF ~IsSome(msg.data) THEN Processed(c, "Err")
            ELSE Processed([c EXCEPT !.clock = Unwrap(msg.data)], "Ok")
      [] msg.message_type = "MarginfiAccount" ->
            IF ~IsSome(msg.data) THEN Processed(c, "Err")
            ELSE LET r == MarginfiAccountsCacheUpdate(c.accounts, c.account_to_health,
                              msg.slot, msg.address, Unwrap(msg.data))
                 IN Processed([c EXCEPT !.accounts = r.accounts,
                                        !.account_to_health = r.account_to_health],
                              "Ok")
      [] msg.message_type = "Bank" ->
            IF ~IsSome(msg.data) THEN Processed(c, "Err")
            ELSE Processed([c EXCEPT !.banks = BanksCacheUpdate(c.banks, msg.slot,
                                                  msg.address, Unwrap(msg.data)),
                                     !.mints = MapInsert(c.mints, Unwrap(msg.data).mint,
                                                  [_address |-> Unwrap(msg.data).mint,
                                                   owner |-> msg.address])],
                           "Ok")
      [] msg.message_type = "Oracle" ->
            IF UpdatePanics(c.oracles, msg.slot, msg.address, msg.data)
            THEN Processed(c, "Panic")
            ELSE Processed([c EXCEPT !.oracles = OraclesCacheUpdate(c.oracles,
                                                    msg.slot, msg.address, msg.data)],
                           "Ok")

\* GeyserProcessor::process_message: the caches it leaves and the Result it
\* returns, or the panic of OraclesCache::update
process_message(c, msg) ==
    CASE msg.message_type = "Clock" ->
            IF ~IsSome(msg.data) THEN Processed(c, "Err")
            ELSE Processed([c EXCEPT !.clock = Unwrap(msg.data)], "Ok")
      [] msg.message_type = "MarginfiAccount" ->
            IF ~IsSome(msg.data) THEN Processed(c, "Err")
            ELSE LET r == MarginfiAccountsCacheUpdate(c.accounts, c.account_to_health,
                              msg.slot, msg.address, Unwrap(msg.data))
                 IN Processed([c EXCEPT !.accounts = r.accounts,
                                        !.account_to_health = r.account_to_health],
                              "Ok")
      [] msg.message_type = "Bank" ->
            IF ~IsSome(msg.data) THEN Processed(c, "Err")
            ELSE Processed([c EXCEPT !.banks = BanksCacheUpdate(c.banks, msg.slot,
                                                  msg.address, Unwrap(msg.data))],
                           "Ok")
      [] msg.message_type = "Oracle" ->
            IF UpdatePanics(c.oracles, msg.slot, msg.address, msg.data)
            THEN Processed(c, "Panic")
            ELSE Processed([c EXCEPT !.oracles = OraclesCacheUpdate(c.oracles,
                                                    msg.slot, msg.address, msg.data)],
                           "Ok")

Handled(msg, result) == [msg |-> msg, result |-> result]

RecvErrs == Cardinality({i \in 1..Len(handled) : handled[i].result = "RecvErr"})

InitIngest ==
    /\ banks = EmptyMap /\ accounts = EmptyMap /\ account_to_health = EmptyMap
    /\ lastOp = NoOp
    /\ IdleOrd /\ IdleLock /\ IdlePa /\ IdleBoot
    /\ ldpc = "done" /\ ldTodo = <<>> /\ oracle_accounts = EmptyMap
    /\ oracle_addresses = Some({"O3"})
    /\ stop = FALSE /\ lqpc = "off" /\ snapshot = EmptyMap
    /\ sorted_accounts = <<>> /\ idx = 0 /\ visited = <<>>
    /\ oracles = ("O3" :> CachedOracleFrom("O3", "SwitchboardPull", None))
    /\ clock = [slot |-> 1]
    /\ exited = FALSE
    /\ queue = <<>>
    /\ connected = TRUE
    /\ gppc = "loop"
    /\ sent = <<>>
    /\ handled = <<>>
    /\ mainpc = "main_loop"

\* handle_event: an account event whose slot is not below the cached
\* clock's is sent to the channel
GsSend(msg) ==
    /\ ~exited
    /\ connected
    /\ Len(sent) < MaxEvents
    /\ msg.slot >= clock.slot
    /\ msg.message_type = "Oracle" => msg.address \in Unwrap(oracle_addresses)
    /\ queue' = Append(queue, msg)
    /\ sent' = Append(sent, msg)
    /\ UNCHANGED <<cacheVars, oracles, clock, exited, stop, connected, gppc, handled>>

\* the last Sender of the channel is dropped
GsDisconnect ==
    /\ ~exited
    /\ connected
    /\ connected' = FALSE
    /\ UNCHANGED <<cacheVars, oracles, clock, exited, stop, queue, gppc, sent, handled>>

\* fault: the loop ends only when the flag is set and the queue is empty
GpLoop_DrainsQueue ==
    /\ ~exited
    /\ gppc = "loop"
    /\ gppc' = IF stop /\ queue = <<>> THEN "returned" ELSE "recv"
    /\ UNCHANGED <<cacheVars, oracles, clock, exited, stop, queue, connected,
                   sent, handled>>

\* while !self.stop.load(Ordering::Relaxed)
GpLoop ==
    /\ ~exited
    /\ gppc = "loop"
    /\ gppc' = IF stop THEN "returned" ELSE "recv"
    /\ UNCHANGED <<cacheVars, oracles, clock, exited, stop, queue, connected,
                   sent, handled>>

\* fault: a message whose processing failed stays in the queue
GpRecvMsg_RetryOnError ==
    /\ ~exited
    /\ gppc = "recv"
    /\ queue # <<>>
    /\ LET msg == Head(queue)
           r == process_message(IngestCache, msg)
       IN /\ clock' = r.cache.clock
          /\ banks' = r.cache.banks
          /\ accounts' = r.cache.accounts
          /\ account_to_health' = r.cache.account_to_health
          /\ oracles' = r.cache.oracles
          /\ exited' = (r.result = "Panic")
          /\ handled' = Append(handled, Handled(msg, r.result))
          /\ queue' = IF r.result = "Err" THEN queue ELSE Tail(queue)
    /\ gppc' = "loop"
    /\ UNCHANGED <<stop, connected, sent>>

\* recv returns Ok(msg): process_message(&msg), its error logged
GpRecvMsg ==
    /\ ~exited
    /\ gppc = "recv"
    /\ queue # <<>>
    /\ LET msg == Head(queue)
           r == process_message(IngestCache, msg)
       IN /\ clock' = r.cache.clock
          /\ banks' = r.cache.banks
          /\ accounts' = r.cache.accounts
          /\ account_to_health' = r.cache.account_to_health
          /\ oracles' = r.cache.oracles
          /\ exited' = (r.result = "Panic")
          /\ handled' = Append(handled, Handled(msg, r.result))
    /\ queue' = Tail(queue)
    /\ gppc' = "loop"
    /\ UNCHANGED <<stop, connected, sent>>

\* fault: a failed receive ends run() with the error
GpRecvErr_Exit ==
    /\ ~exited
    /\ gppc = "recv"
    /\ queue = <<>>
    /\ ~connected
    /\ handled' = IF RecvErrs < MaxRecvErrs
                  THEN Append(handled, Handled(NoMessage, "RecvErr"))
                  ELSE handled
    /\ gppc' = "failed"
    /\ UNCHANGED <<cacheVars, oracles, clock, exited, stop, queue, connected, sent>>

\* recv returns Err: the channel is empty and disconnected; the error is
\* logged
GpRecvErr ==
    /\ ~exited
    /\ gppc = "recv"
    /\ queue = <<>>
    /\ ~connected
    /\ handled' = IF RecvErrs < MaxRecvErrs
                  THEN Append(handled, Handled(NoMessage, "RecvErr"))
                  ELSE handled
    /\ gppc' = "loop"
    /\ UNCHANGED <<cacheVars, oracles, clock, exited, stop, queue, connected, sent>>

\* the stop flag is set while the GeyserProcessor runs
IngestSetStop ==
    /\ ~exited
    /\ SetStop
    /\ UNCHANGED <<oracles, clock, exited, gpVars>>

IngestUnchanged ==
    UNCHANGED <<lastOp, ordVars, lockVars, lqpc, snapshot, sorted_accounts, idx,
                visited, loadVars, paVars, mainpc, bootVars>>

GeyserProcessorRun == GpLoop \/ GpRecvMsg \/ GpRecvErr

NextIngest ==
    \/ \E msg \in GeyserMessages : GsSend(msg) /\ IngestUnchanged
    \/ GsDisconnect /\ IngestUnchanged
    \/ GpLoop /\ IngestUnchanged
    \/ GpRecvMsg /\ IngestUnchanged
    \/ GpRecvErr /\ IngestUnchanged
    \/ IngestSetStop /\ IngestUnchanged

SpecIngest == InitIngest /\ [][NextIngest]_vars

\* the GeyserProcessor thread keeps running
SpecIngestFair == SpecIngest /\ WF_vars(GeyserProcessorRun /\ IngestUnchanged)

----------------------------------------------------------------------------
(* SpecSvc: LiquidationService::run with process_account step by step,     *)
(* over a cache whose locks a panicked writer may have poisoned            *)

\* the RwLocks the scheduler reads
SvcLocks == {"accounts", "account_to_health"}

\* a call of the strategy and what it returned
Call(fn, ret) == [fn |-> fn, ret |-> ret]

\* what LiquidationStrategy::prepare and ::liquidate can return
PrepareReturns == {"Err", "None", "Some"}
LiquidateReturns == {"Err", "Ok"}

Visit(address, result, strategy_calls) ==
    [address |-> address, result |-> result, calls |-> strategy_calls]

\* the caches after the Positions of A1 and A2 were stored at slot 1
SvcCaches(m1, m2) ==
    LET c1 == MarginfiAccountsCacheUpdate(EmptyMap, EmptyMap, 1, "A1", m1)
    IN MarginfiAccountsCacheUpdate(c1.accounts, c1.account_to_health, 1, "A2", m2)

InitSvc ==
    /\ \E m1 \in AccountValues, m2 \in AccountValues :
          /\ accounts = SvcCaches(m1, m2).accounts
          /\ account_to_health = SvcCaches(m1, m2).account_to_health
    /\ banks = EmptyMap /\ lastOp = NoOp
    /\ IdleOrd /\ IdleLock /\ IdleLoad /\ IdleGp /\ IdleBoot
    /\ oracles = EmptyMap /\ clock = [slot |-> 1] /\ exited = FALSE
    /\ stop = FALSE
    /\ lqpc = "loop"
    /\ snapshot = EmptyMap
    /\ sorted_accounts = <<>>
    /\ idx = 0
    /\ visited = <<>>
    /\ papc = "off"
    /\ calls = <<>>
    /\ poisoned = {}
    /\ mainpc = "main_loop"

\* a thread panics while it holds the write guard of a lock
PoisonLock(lock) ==
    /\ lock \notin poisoned
    /\ poisoned' = poisoned \cup {lock}
    /\ UNCHANGED <<cacheVars, lastOp, schedVars, papc, calls>>

\* fault: the failed snapshot is retried at once
LqSnapshotErr_Retry ==
    /\ lqpc = "cycle"
    /\ "account_to_health" \in poisoned
    /\ lqpc' = "cycle"
    /\ lastOp' = [NoOp EXCEPT !.kind = "snapshot", !.result = "Err"]
    /\ UNCHANGED <<cacheVars, stop, snapshot, sorted_accounts, idx, visited,
                   papc, calls, poisoned>>

\* get_accounts_with_health() returns Err: the error is logged and
\* `continue` goes back to the loop condition
LqSnapshotErr ==
    /\ lqpc = "cycle"
    /\ "account_to_health" \in poisoned
    /\ lqpc' = "loop"
    /\ lastOp' = [NoOp EXCEPT !.kind = "snapshot", !.result = "Err"]
    /\ UNCHANGED <<cacheVars, stop, snapshot, sorted_accounts, idx, visited,
                   papc, calls, poisoned>>

\* process_account returns: the for loop logs an error and takes the next
\* address
EndVisit(result, strategy_calls) ==
    /\ visited' = Append(visited,
                         Visit(sorted_accounts[idx + 1], result, strategy_calls))
    /\ idx' = idx + 1
    /\ papc' = "off"
    /\ calls' = <<>>

\* process_account: the Position lookup and choose_liquidation_strategy,
\* which always returns Ok
PaGetAccount ==
    /\ lqpc = "visit"
    /\ idx < Len(sorted_accounts)
    /\ papc = "off"
    /\ IF "accounts" \in poisoned \/ sorted_accounts[idx + 1] \notin DOMAIN accounts
       THEN EndVisit("Err", <<>>)
       ELSE /\ papc' = "prepare"
            /\ UNCHANGED <<visited, idx, calls>>
    /\ UNCHANGED <<cacheVars, lastOp, stop, lqpc, snapshot, sorted_accounts, poisoned>>

\* fault: liquidate is called whatever prepare returned
PaPrepare_LiquidateAlways ==
    /\ papc = "prepare"
    /\ \E ret \in PrepareReturns :
          /\ papc' = "liquidate"
          /\ calls' = Append(calls, Call("prepare", ret))
          /\ UNCHANGED <<visited, idx>>
    /\ UNCHANGED <<cacheVars, lastOp, stop, lqpc, snapshot, sorted_accounts, poisoned>>

\* liquidation_strategy.prepare(&account)?
PaPrepare ==
    /\ papc = "prepare"
    /\ \E ret \in PrepareReturns :
          LET strategy_calls == Append(calls, Call("prepare", ret)) IN
          CASE ret = "Err" -> EndVisit("Err", strategy_calls)
            [] ret = "None" -> EndVisit("Ok", strategy_calls)
            [] ret = "Some" -> /\ papc' = "liquidate"
                               /\ calls' = strategy_calls
                               /\ UNCHANGED <<visited, idx>>
    /\ UNCHANGED <<cacheVars, lastOp, stop, lqpc, snapshot, sorted_accounts, poisoned>>

\* liquidation_strategy.liquidate(lq_params, ..)?
PaLiquidate ==
    /\ papc = "liquidate"
    /\ \E ret \in LiquidateReturns :
          EndVisit(ret, Append(calls, Call("liquidate", ret)))
    /\ UNCHANGED <<cacheVars, lastOp, stop, lqpc, snapshot, sorted_accounts, poisoned>>

SvcUnchanged ==
    UNCHANGED <<ordVars, lockVars, oracles, clock, exited, loadVars, gpVars, mainpc,
                bootVars>>

LiquidationServiceRun ==
    \/ LqLoop /\ UNCHANGED <<lastOp, paVars>>
    \/ LqSnapshot /\ UNCHANGED <<lastOp, paVars>>
    \/ LqSnapshotErr
    \/ PaGetAccount
    \/ PaPrepare
    \/ PaLiquidate
    \/ LqCycleDone /\ UNCHANGED <<lastOp, paVars>>
    \/ LqSleep /\ UNCHANGED <<lastOp, paVars>>

NextSvc ==
    \/ LqLoop /\ UNCHANGED <<lastOp, paVars>> /\ SvcUnchanged
    \/ LqSnapshot /\ UNCHANGED <<lastOp, paVars>> /\ SvcUnchanged
    \/ LqSnapshotErr /\ SvcUnchanged
    \/ PaGetAccount /\ SvcUnchanged
    \/ PaPrepare /\ SvcUnchanged
    \/ PaLiquidate /\ SvcUnchanged
    \/ LqCycleDone /\ UNCHANGED <<lastOp, paVars>> /\ SvcUnchanged
    \/ LqSleep /\ UNCHANGED <<lastOp, paVars>> /\ SvcUnchanged
    \/ SetStop /\ UNCHANGED <<lastOp, paVars>> /\ SvcUnchanged
    \/ \E lock \in SvcLocks : PoisonLock(lock) /\ SvcUnchanged

SpecSvc == InitSvc /\ [][NextSvc]_vars

\* the LiquidationService thread keeps running, and every call it makes
\* returns
SpecSvcFair == SpecSvc /\ WF_vars(LiquidationServiceRun /\ SvcUnchanged)

----------------------------------------------------------------------------
(* SpecStart: ServiceManager::start: the GeyserProcessor and the           *)
(* GeyserSubscriber threads are spawned, load_cache runs on the calling    *)
(* thread, then the LiquidationService thread is spawned                   *)

\* the events streamed while the service starts: Position events
StartMessages == {msg \in GeyserMessages : msg.message_type = "MarginfiAccount"}

\* the Position get_program_accounts returns to load_accounts
LoadedAccount == MkAccount(1000, 1500, <<Balance(1, "A2")>>)

\* the four loads of load_cache, in order
LoadSteps == <<"load_accounts", "load_mints", "load_oracles", "load_luts">>

AfterLoad(step) ==
    IF step = LoadSteps[Len(LoadSteps)] THEN "done"
    ELSE LoadSteps[1 + CHOOSE i \in 1..Len(LoadSteps) : LoadSteps[i] = step]

InitStart ==
    /\ EmptyCaches /\ IdleOrd /\ IdleLock /\ IdleSched /\ IdleGp /\ IdlePa
    /\ IdleBoot
    /\ oracles = EmptyMap
    /\ clock = [slot |-> 1]
    /\ exited = FALSE
    /\ IdleLoad
    /\ mainpc = "spawn_processor"

\* thread::spawn(move || geyser_processor.run())
StSpawnProcessor ==
    /\ ~exited
    /\ mainpc = "spawn_processor"
    /\ gppc' = "loop"
    /\ mainpc' = "spawn_subscriber"
    /\ UNCHANGED <<cacheVars, oracles, clock, exited, schedVars, loadVars,
                   queue, connected, sent, handled>>

\* thread::spawn(move || geyser_subscriber.run()), and load_cache is entered
StSpawnSubscriber ==
    /\ ~exited
    /\ mainpc = "spawn_subscriber"
    /\ mainpc' = "load_cache"
    /\ ldpc' = LoadSteps[1]
    /\ UNCHANGED <<cacheVars, oracles, clock, exited, schedVars, ldTodo,
                   oracle_accounts, oracle_addresses, gpVars>>

\* one of the loads of load_cache returns Ok; load_accounts has stored the
\* Position the RPC node returned, at the slot of the cached clock
StLoadOk ==
    /\ ~exited
    /\ mainpc = "load_cache"
    /\ ldpc \in Range(LoadSteps)
    /\ IF ldpc = "load_accounts"
       THEN AccountsUpdate(clock.slot, "A2", LoadedAccount)
       ELSE UNCHANGED cacheVars
    /\ ldpc' = AfterLoad(ldpc)
    /\ mainpc' = IF AfterLoad(ldpc) = "done" THEN "spawn_liquidation" ELSE mainpc
    /\ UNCHANGED <<oracles, clock, exited, schedVars, ldTodo, oracle_accounts,
                   oracle_addresses, gpVars>>

\* one of the loads returns Err: load_cache()? makes start, and main, return
\* the error, which ends the process
StLoadErr ==
    /\ ~exited
    /\ mainpc = "load_cache"
    /\ ldpc \in Range(LoadSteps)
    /\ ldpc' = "failed"
    /\ mainpc' = "returned"
    /\ exited' = TRUE
    /\ UNCHANGED <<cacheVars, oracles, clock, schedVars, ldTodo, oracle_accounts,
                   oracle_addresses, gpVars>>

\* fault: the LiquidationService thread is spawned while load_cache runs
StSpawnLiquidation_BeforeLoad ==
    /\ ~exited
    /\ mainpc \in {"load_cache", "spawn_liquidation"}
    /\ lqpc = "off"
    /\ lqpc' = "loop"
    /\ mainpc' = IF mainpc = "spawn_liquidation" THEN "main_loop" ELSE mainpc
    /\ UNCHANGED <<cacheVars, oracles, clock, exited, stop, snapshot,
                   sorted_accounts, idx, visited, loadVars, gpVars>>

\* thread::spawn(move || liquidation_service.run())
StSpawnLiquidation ==
    /\ ~exited
    /\ mainpc = "spawn_liquidation"
    /\ lqpc' = "loop"
    /\ mainpc' = "main_loop"
    /\ UNCHANGED <<cacheVars, oracles, clock, exited, stop, snapshot,
                   sorted_accounts, idx, visited, loadVars, gpVars>>

\* the Main loop reads the stop flag as set: start and main return Ok,
\* which ends the process
StMainLoopStopped ==
    /\ ~exited
    /\ mainpc = "main_loop"
    /\ stop
    /\ mainpc' = "returned"
    /\ exited' = TRUE
    /\ UNCHANGED <<cacheVars, oracles, clock, schedVars, loadVars, gpVars>>

\* the GeyserSubscriber thread handles an event
StGsSend(msg) ==
    /\ mainpc \notin {"spawn_processor", "spawn_subscriber"}
    /\ GsSend(msg)
    /\ UNCHANGED <<lqpc, snapshot, sorted_accounts, idx, visited, loadVars>>

\* the GeyserProcessor thread
StGeyserProcessor ==
    /\ (GpLoop \/ GpRecvMsg)
    /\ UNCHANGED <<lqpc, snapshot, sorted_accounts, idx, visited, loadVars>>

\* the LiquidationService thread
StLiquidationService ==
    /\ ~exited
    /\ (LqLoop \/ LqSnapshot \/ LqProcessAccount \/ LqCycleDone \/ LqSleep)
    /\ UNCHANGED <<oracles, clock, exited, loadVars, gpVars>>

StSetStop ==
    /\ ~exited
    /\ SetStop
    /\ UNCHANGED <<oracles, clock, exited, loadVars, gpVars>>

StartUnchanged == UNCHANGED <<lastOp, ordVars, lockVars, paVars, bootVars>>

NextStart ==
    \/ StSpawnProcessor /\ StartUnchanged
    \/ StSpawnSubscriber /\ StartUnchanged
    \/ StLoadOk /\ StartUnchanged
    \/ StLoadErr /\ StartUnchanged
    \/ StSpawnLiquidation /\ StartUnchanged
    \/ StMainLoopStopped /\ StartUnchanged
    \/ \E msg \in StartMessages :
          StGsSend(msg) /\ UNCHANGED mainpc /\ StartUnchanged
    \/ StGeyserProcessor /\ UNCHANGED mainpc /\ StartUnchanged
    \/ StLiquidationService /\ UNCHANGED mainpc /\ StartUnchanged
    \/ StSetStop /\ UNCHANGED mainpc /\ StartUnchanged

SpecStart == InitStart /\ [][NextStart]_vars

----------------------------------------------------------------------------
(* common: the classifier of account data, over byte sequences *)

MARGINFI_ACCOUNT_DISCRIMINATOR == <<67, 178, 130, 109, 126, 114, 28, 42>>
MARGINFI_ACCOUNT_DISCRIMINATOR_LEN == Len(MARGINFI_ACCOUNT_DISCRIMINATOR)
MARGINFI_BANK_DISCRIMINATOR == <<142, 49, 166, 242, 50, 66, 97, 188>>
MARGINFI_BANK_DISCRIMINATOR_LEN == Len(MARGINFI_BANK_DISCRIMINATOR)

\* slice::starts_with
starts_with(s, needle) ==
    /\ Len(s) >= Len(needle)
    /\ SubSeq(s, 1, Len(needle)) = needle

\* fault: data that is exactly a discriminator is classified
get_marginfi_message_type_AcceptsExactLength(account_data) ==
    IF /\ Len(account_data) >= MARGINFI_ACCOUNT_DISCRIMINATOR_LEN
       /\ starts_with(account_data, MARGINFI_ACCOUNT_DISCRIMINATOR)
    THEN Some("MarginfiAccount")
    ELSE IF /\ Len(account_data) >= MARGINFI_BANK_DISCRIMINATOR_LEN
            /\ starts_with(account_data, MARGINFI_BANK_DISCRIMINATOR)
    THEN Some("Bank")
    ELSE None

\* common::get_marginfi_message_type
get_marginfi_message_type(account_data) ==
    IF /\ Len(account_data) > MARGINFI_ACCOUNT_DISCRIMINATOR_LEN
       /\ starts_with(account_data, MARGINFI_ACCOUNT_DISCRIMINATOR)
    THEN Some("MarginfiAccount")
    ELSE IF /\ Len(account_data) > MARGINFI_BANK_DISCRIMINATOR_LEN
            /\ starts_with(account_data, MARGINFI_BANK_DISCRIMINATOR)
    THEN Some("Bank")
    ELSE None

----------------------------------------------------------------------------
(* SpecClassify: get_marginfi_message_type called with every prefix of a   *)
(* discriminator followed by every short tail                              *)

\* the longest tail appended to a prefix
MaxTailLen == 2

\* the bytes a tail is made of
TailBytes == {0, 9}

Tails == UNION {[1..n -> TailBytes] : n \in 0..MaxTailLen}
             \cup {<<9, 9, 9, 9, 9, 9, 9, 9>>}

\* the starts of an input: the two discriminators and eight zero bytes
Heads == {MARGINFI_ACCOUNT_DISCRIMINATOR, MARGINFI_BANK_DISCRIMINATOR,
          <<0, 0, 0, 0, 0, 0, 0, 0>>}

AccountDatas == {SubSeq(h, 1, k) \o t : h \in Heads, k \in 0..8, t \in Tails}

ClassifyOp(account_data, result) ==
    [NoOp EXCEPT !.kind = "classify", !.value = account_data, !.result = result]

InitClassify == EmptyCaches /\ IdleOrd /\ IdleLock /\ IdleSched /\ IdleSvc

Classify(account_data) ==
    /\ lastOp' = ClassifyOp(account_data, get_marginfi_message_type(account_data))
    /\ UNCHANGED <<cacheVars, ordVars, lockVars, schedVars, svcVars>>

NextClassify == \E account_data \in AccountDatas : Classify(account_data)

SpecClassify == InitClassify /\ [][NextClassify]_vars

----------------------------------------------------------------------------
(* SpecHealth: CachedMarginfiAccount::health called with every pair of      *)
(* asset and liability values                                              *)

\* values of health_cache.asset_value_maint and liability_value_maint, from
\* the smallest up to those whose quotient leaves the range of i64
HealthValues == {0, 1, 2, 3, 500, 1000, 1500}
                    \cup {2 ^ (HealthBits - 1) + k : k \in -1..2}
                    \cup {2 ^ HealthBits + k : k \in -1..1}

HealthOp(marginfi_account, result) ==
    [NoOp EXCEPT !.kind = "health", !.value = marginfi_account, !.result = result]

\* what a call of health() does in either build
HealthResults(cached) ==
    {Ok(health(cached))} \cup (IF HealthPanics(cached) THEN {Panic} ELSE {})

InitHealth == EmptyCaches /\ IdleOrd /\ IdleLock /\ IdleSched /\ IdleSvc

Health(asset, liability) ==
    LET marginfi_account == MkAccount(asset, liability, <<>>)
    IN /\ \E result \in HealthResults(CachedMarginfiAccountFrom(1, "A1", marginfi_account)) :
             lastOp' = HealthOp(marginfi_account, result)
       /\ UNCHANGED <<cacheVars, ordVars, lockVars, schedVars, svcVars>>

NextHealth == \E asset \in HealthValues, liability \in HealthValues : Health(asset, liability)

SpecHealth == InitHealth /\ [][NextHealth]_vars

----------------------------------------------------------------------------
(* SpecDecode: OraclesCache::insert and OraclesCache::update called with   *)
(* every oracle variant and every shape of account data                    *)

DecodeAddress == {"O1", "O2"}

\* OracleSetup: the two variants CachedPriceAdapter::from parses, and one of
\* the others
OracleSetups == {"SwitchboardPull", "PythPushOracle", "PythLegacy"}

DecodeData ==
    {PythData(1), SwbData(1), TinyData, WrongDiscData, ShortSwbData, ShortPythData}

\* what CachedPriceAdapter::from returned: "Ok", "Panic", or the message of
\* its error
Decoded(r) == IF r.tag = "Err" THEN Unwrap(r.val) ELSE r.tag

\* the record of an insert() or update() call, with the outcome of the parse
\* it made ("NotParsed" when it made none)
DecodeOp(kind, slot, address, oracle_type, account, result, decoded) ==
    [kind |-> kind, slot |-> slot, address |-> address,
     value |-> [oracle_type |-> oracle_type, account |-> account],
     applied |-> TRUE, result |-> result, decoded |-> decoded]

InitDecode ==
    /\ banks = EmptyMap /\ accounts = EmptyMap /\ account_to_health = EmptyMap
    /\ lastOp = DecodeOp("none", 0, DefaultPubkey, "None", TinyData, "Ok", "NotParsed")
    /\ IdleOrd /\ IdleLock /\ IdleSched /\ IdleSvc

\* OraclesCache::insert(slot, address, oracle_type, account); a panic of the
\* parse ends the process
DecodeInsert(slot, address, oracle_type, account) ==
    LET r == CachedPriceAdapterFrom(slot, oracle_type, address, account) IN
    /\ ~exited
    /\ IF InsertPanics(slot, address, oracle_type, account)
       THEN /\ exited' = TRUE
            /\ UNCHANGED oracles
            /\ lastOp' = DecodeOp("oracle_insert", slot, address, oracle_type,
                                  account, "Panic", Decoded(r))
       ELSE /\ oracles' = OraclesCacheInsert(oracles, slot, address,
                                             oracle_type, account)
            /\ UNCHANGED exited
            /\ lastOp' = DecodeOp("oracle_insert", slot, address, oracle_type,
                                  account, "Ok", Decoded(r))

\* OraclesCache::update(slot, address, account); the variant is the cached
\* one, and the parse is made only for a cached address and a newer slot
DecodeUpdate(slot, address, account) ==
    LET parsed == address \in DOMAIN oracles /\ OracleIsNewer(oracles[address], slot)
        oracle_type == IF address \in DOMAIN oracles
                       THEN oracles[address]._oracle_type ELSE "None"
        decoded == IF parsed
                   THEN Decoded(CachedPriceAdapterFrom(slot, oracle_type,
                                                       address, account))
                   ELSE "NotParsed"
    IN
    /\ ~exited
    /\ IF UpdatePanics(oracles, slot, address, account)
       THEN /\ exited' = TRUE
            /\ UNCHANGED oracles
            /\ lastOp' = DecodeOp("oracle_update", slot, address, oracle_type,
                                  account, "Panic", decoded)
       ELSE /\ oracles' = OraclesCacheUpdate(oracles, slot, address, account)
            /\ UNCHANGED exited
            /\ lastOp' = DecodeOp("oracle_update", slot, address, oracle_type,
                                  account, "Ok", decoded)

DecodeUnchanged ==
    UNCHANGED <<cacheVars, ordVars, lockVars, schedVars, clock, loadVars, gpVars,
                paVars, mainpc, bootVars>>

NextDecode ==
    \/ \E s \in Slots, a \in DecodeAddress, t \in OracleSetups, d \in DecodeData :
          DecodeInsert(s, a, t, d) /\ DecodeUnchanged
    \/ \E s \in Slots, a \in DecodeAddress, d \in DecodeData :
          DecodeUpdate(s, a, d) /\ DecodeUnchanged

SpecDecode == InitDecode /\ [][NextDecode]_vars

----------------------------------------------------------------------------
(* MintsCache, LutsCache and the RPC client *)

\* MintsCache::update
MintsCacheUpdate(ms, address, mint) ==
    MapInsert(ms, address, [_address |-> address, owner |-> mint.owner])

\* fault: the new tables are added to the cached ones
LutsCachePopulate_Extend(ls, new_luts) == ls \o new_luts

\* LutsCache::populate: *write_guard = luts
LutsCachePopulate(ls, new_luts) == new_luts

\* LutsCache::get_all
LutsCacheGetAll(ls) == ls

AddressLookupTableAccount(key, addresses) == [key |-> key, addresses |-> addresses]

\* the tuples CommsClient::get_accounts can return for a list of addresses:
\* one for each address that has an account, in the order of the list
RECURSIVE FetchedAccounts(_, _)
FetchedAccounts(addresses, data) ==
    IF addresses = <<>> THEN {<<>>}
    ELSE LET rest == FetchedAccounts(Tail(addresses), data) IN
         rest \cup {<<[address |-> Head(addresses), account |-> d]>> \o r :
                        d \in data, r \in rest}

\* CommsClient::get_accounts: the tuples, or the error of the RPC call
get_accounts(addresses, data) ==
    {Err("Fetch")} \cup {Ok(tuples) : tuples \in FetchedAccounts(addresses, data)}

\* the for loop of load_luts: AddressLookupTable::deserialize of every
\* fetched account, the first failure returned with ?; the data of an
\* account is the address list it deserializes to, or None
RECURSIVE DeserializeLuts(_)
DeserializeLuts(lut_accounts) ==
    IF lut_accounts = <<>> THEN Ok(<<>>)
    ELSE LET lut == Head(lut_accounts) IN
         IF ~IsSome(lut.account) THEN Err("Deserialize")
         ELSE LET rest == DeserializeLuts(Tail(lut_accounts)) IN
              IF rest.tag = "Ok"
              THEN Ok(<<AddressLookupTableAccount(lut.address, Unwrap(lut.account))>>
                        \o Unwrap(rest.val))
              ELSE rest

LoadResult(ls, result, fetched) == [luts |-> ls, result |-> result, fetched |-> fetched]

\* CacheLoader::load_luts over the LutsCache content ls, with the return of
\* its get_accounts call: the content it leaves, its result, and whether it
\* called get_accounts
load_luts(ls, addresses, fetch) ==
    IF addresses = <<>> THEN LoadResult(ls, "Ok", FALSE)
    ELSE IF fetch.tag = "Err" THEN LoadResult(ls, "FetchErr", TRUE)
    ELSE LET decoded == DeserializeLuts(Unwrap(fetch.val)) IN
         IF decoded.tag = "Err" THEN LoadResult(ls, "DecodeErr", TRUE)
         ELSE LoadResult(LutsCachePopulate(ls, Unwrap(decoded.val)), "Ok", TRUE)

----------------------------------------------------------------------------
(* SpecLuts: LutsCache::populate and CacheLoader::load_luts, called with    *)
(* every list of tables and every return of the RPC node                   *)

\* Config.lut_addresses
LutConfigs == {<<>>, <<"L1", "L2">>}

\* account data of a lookup table
LutData == {Some(<<"X1", "X2">>), None}

LutTables == {AddressLookupTableAccount(k, <<"X1", "X2">>) : k \in {"L1", "L2"}}

\* the lists populate is called with
LutLists == {<<>>} \cup {<<t>> : t \in LutTables}
               \cup {<<t, u>> : t \in LutTables, u \in LutTables}

\* the record of a populate() or load_luts() call: its argument or the
\* return of get_accounts, its result, and the content of the cache before
LutsOp(kind, value, result, fetched, before) ==
    [kind |-> kind, slot |-> 0, address |-> DefaultPubkey, value |-> value,
     applied |-> TRUE, result |-> result, fetched |-> fetched, before |-> before]

InitLuts ==
    /\ banks = EmptyMap /\ accounts = EmptyMap /\ account_to_health = EmptyMap
    /\ lastOp = LutsOp("none", <<>>, "Ok", FALSE, <<>>)
    /\ IdleOrd /\ IdleLock /\ IdleSched
    /\ oracles = EmptyMap /\ clock = [slot |-> 0] /\ exited = FALSE
    /\ IdleLoad /\ IdleGp /\ IdlePa /\ mainpc = "off"
    /\ mints = EmptyMap /\ luts = <<>>
    /\ lut_addresses \in LutConfigs
    /\ bootpc = "off" /\ ldSlot = 0 /\ ldAccounts = <<>> /\ ldLog = <<>>

\* LutsCache::populate(new_luts)
LutsPopulate(new_luts) ==
    /\ luts' = LutsCachePopulate(luts, new_luts)
    /\ lastOp' = LutsOp("populate", new_luts, "Ok", FALSE, luts)

\* CacheLoader::load_luts, with the return of its get_accounts call
LutsLoad(fetch) ==
    LET r == load_luts(luts, lut_addresses, fetch) IN
    /\ luts' = r.luts
    /\ lastOp' = LutsOp("load_luts", IF r.fetched THEN Some(fetch) ELSE None,
                        r.result, r.fetched, luts)

LutsUnchanged ==
    UNCHANGED <<cacheVars, ordVars, lockVars, schedVars, oracles, clock, exited,
                loadVars, gpVars, paVars, mainpc, mints, lut_addresses, bootpc,
                ldSlot, ldAccounts, ldLog>>

NextLuts ==
    \/ \E new_luts \in LutLists : LutsPopulate(new_luts) /\ LutsUnchanged
    \/ \E fetch \in get_accounts(lut_addresses, LutData) :
          LutsLoad(fetch) /\ LutsUnchanged

SpecLuts == InitLuts /\ [][NextLuts]_vars

----------------------------------------------------------------------------
(* SpecBoot: CacheLoader::load_cache, one step per fetch and per handled    *)
(* account, while the GeyserProcessor thread applies streamed events        *)

\* the first bytes of the data of an account with discriminator disc,
\* followed by one byte of body
AccountBytes(disc) ==
    IF disc = "MarginfiAccount" THEN MARGINFI_ACCOUNT_DISCRIMINATOR \o <<0>>
    ELSE IF disc = "Bank" THEN MARGINFI_BANK_DISCRIMINATOR \o <<0>>
    ELSE <<0, 1, 2, 3, 4, 5, 6, 7, 8, 9>>

\* an account of the program as get_program_accounts returns it: the bytes
\* of its data, and the value they deserialize to (None when they do not
\* deserialize)
ProgramAccount(address, disc, data) ==
    [address |-> address, account |-> [bytes |-> AccountBytes(disc), data |-> data]]

\* the vectors get_program_accounts returns
ProgramAccounts ==
    { <<ProgramAccount("A1", "Bank", Some(BankWith("M2"))),
        ProgramAccount("A2", "MarginfiAccount", Some(LoadedAccount))>>,
      <<ProgramAccount("A2", "MarginfiAccount", None),
        ProgramAccount("A1", "Bank", Some(BankWith("M2")))>>,
      <<ProgramAccount("A1", "Bank", None),
        ProgramAccount("A2", "MarginfiAccount", Some(LoadedAccount))>>,
      <<ProgramAccount("A2", "Other", None),
        ProgramAccount("A1", "Bank", Some(BankWith("M2")))>>,
      <<ProgramAccount("A1", "Bank", Some(BankWith("M2"))),
        ProgramAccount("A2", "Bank", Some(BankWith("M2")))>> }

\* CommsClient::get_program_accounts: a vector, or the error of the RPC call
get_program_accounts == {Err("Fetch")} \cup {Ok(v) : v \in ProgramAccounts}

\* account data of a mint
MintData == {[owner |-> "TokenProgram"]}

\* BanksCache::get_mints in one of the orders HashMap::values allows
get_mints(bs) == {[i \in 1..Len(p) |-> bs[p[i]].mint] : p \in KeyOrders(bs)}

\* the for loop of load_mints
RECURSIVE UpdateMints(_, _)
UpdateMints(ms, tuples) ==
    IF tuples = <<>> THEN ms
    ELSE UpdateMints(MintsCacheUpdate(ms, Head(tuples).address, Head(tuples).account),
                     Tail(tuples))

\* the events streamed while load_cache runs and after it: one of each
\* message type, at a slot above the one load_cache starts at
BootMessages ==
    { GeyserMessage("Clock", MaxIngestSlot, "SysvarClock",
                    Some([slot |-> MaxIngestSlot])),
      GeyserMessage("MarginfiAccount", MaxIngestSlot, "A2",
                    Some(MkAccount(1000, 500, <<>>))),
      GeyserMessage("Bank", MaxIngestSlot, "A1", Some(BankWith("M2"))),
      GeyserMessage("Oracle", MaxIngestSlot, "O3", SwbData(2)) }

\* the caches a GeyserProcessor holds
BootCache ==
    [clock |-> clock, banks |-> banks, accounts |-> accounts,
     account_to_health |-> account_to_health, oracles |-> oracles,
     mints |-> mints, luts |-> luts]

LogEntry(phase, result) == [phase |-> phase, result |-> result]
LogResult(result) == [ldLog EXCEPT ![Len(ldLog)].result = result]

BootOp(kind) == [NoOp EXCEPT !.kind = kind]

InitBoot ==
    /\ EmptyCaches /\ IdleOrd /\ IdleLock /\ IdleSched /\ IdleGp /\ IdlePa
    /\ IdleLoad
    /\ oracles = EmptyMap
    /\ clock = [slot |-> 1]
    /\ exited = FALSE
    /\ mainpc = "load_cache"
    /\ mints = EmptyMap /\ luts = <<>>
    /\ lut_addresses \in LutConfigs
    /\ bootpc = "load_accounts"
    /\ ldSlot = 0 /\ ldAccounts = <<>> /\ ldLog = <<>>

\* load_accounts up to its loop: the slot of the cached clock, and the
\* accounts of the program; an RPC error is returned with ?
BootLoadAccounts(fetch) ==
    /\ ~exited
    /\ bootpc = "load_accounts"
    /\ ldSlot' = clock.slot
    /\ IF fetch.tag = "Err"
       THEN /\ bootpc' = "failed"
            /\ ldLog' = Append(ldLog, LogEntry("load_accounts", "FetchErr"))
            /\ UNCHANGED ldAccounts
       ELSE /\ bootpc' = "accounts_loop"
            /\ ldLog' = Append(ldLog, LogEntry("load_accounts", "running"))
            /\ ldAccounts' = Unwrap(fetch.val)
    /\ lastOp' = BootOp("load_accounts")
    /\ UNCHANGED <<cacheVars, oracles, clock, exited, loadVars, mints, luts,
                   lut_addresses>>

\* one iteration of the for loop of load_accounts, inserting at slot; a
\* failed try_deserialize is returned with ?
LoadAccountsStepAt(slot) ==
    /\ ~exited
    /\ bootpc = "accounts_loop"
    /\ ldAccounts # <<>>
    /\ LET address == Head(ldAccounts).address
           account == Head(ldAccounts).account
           type == get_marginfi_message_type(account.bytes)
       IN IF type = None
          THEN /\ lastOp' = BootOp("load_skip")
               /\ UNCHANGED <<cacheVars, bootpc, ldLog>>
          ELSE IF ~IsSome(account.data)
          THEN /\ lastOp' = BootOp("load_decode_error")
               /\ bootpc' = "failed"
               /\ ldLog' = LogResult("DecodeErr")
               /\ UNCHANGED cacheVars
          ELSE IF Unwrap(type) = "MarginfiAccount"
          THEN /\ AccountsUpdate(slot, address, Unwrap(account.data))
               /\ lastOp' = Op("load_account", slot, address, Unwrap(account.data),
                               IsNewer(accounts, address, slot))
               /\ UNCHANGED <<bootpc, ldLog>>
          ELSE /\ BanksUpdate(slot, address, Unwrap(account.data))
               /\ lastOp' = Op("load_bank", slot, address, Unwrap(account.data),
                               IsNewer(banks, address, slot))
               /\ UNCHANGED <<bootpc, ldLog>>
    /\ ldAccounts' = Tail(ldAccounts)
    /\ UNCHANGED <<oracles, clock, exited, loadVars, mints, luts, lut_addresses,
                   ldSlot>>

\* fault: every insert reads the slot of the cached clock again
BootLoadAccountsStep_ClockSlot == LoadAccountsStepAt(clock.slot)

\* the loop inserts at the slot load_accounts read before the fetch
BootLoadAccountsStep == LoadAccountsStepAt(ldSlot)

\* load_accounts returns Ok
BootLoadAccountsDone ==
    /\ ~exited
    /\ bootpc = "accounts_loop"
    /\ ldAccounts = <<>>
    /\ bootpc' = "load_mints"
    /\ ldLog' = LogResult("Ok")
    /\ lastOp' = BootOp("load_accounts_done")
    /\ UNCHANGED <<cacheVars, oracles, clock, exited, loadVars, mints, luts,
                   lut_addresses, ldSlot, ldAccounts>>

\* load_mints with the address list it collected and what the fetch returned
LoadMintsOp(mint_addresses, fetch) ==
    [BootOp("load_mints") EXCEPT !.value = mint_addresses, !.result = fetch]

\* fault: the error of the fetch is logged and load_cache goes on
BootLoadMints_IgnoreFetchErr ==
    /\ ~exited
    /\ bootpc = "load_mints"
    /\ \E mint_addresses \in get_mints(banks) :
       \E fetch \in get_accounts(mint_addresses, MintData) :
          /\ IF fetch.tag = "Err"
             THEN /\ ldLog' = Append(ldLog, LogEntry("load_mints", "FetchErr"))
                  /\ UNCHANGED mints
             ELSE /\ ldLog' = Append(ldLog, LogEntry("load_mints", "Ok"))
                  /\ mints' = UpdateMints(mints, Unwrap(fetch.val))
          /\ lastOp' = LoadMintsOp(mint_addresses, fetch)
    /\ bootpc' = "load_oracles"
    /\ ldpc' = "start"
    /\ UNCHANGED <<cacheVars, oracles, clock, exited, ldTodo, oracle_accounts,
                   oracle_addresses, luts, lut_addresses, ldSlot, ldAccounts>>

\* load_mints: the mints of the cached banks are fetched and stored; an RPC
\* error is returned with ?; then load_oracles is entered
BootLoadMints ==
    /\ ~exited
    /\ bootpc = "load_mints"
    /\ \E mint_addresses \in get_mints(banks) :
       \E fetch \in get_accounts(mint_addresses, MintData) :
          /\ IF fetch.tag = "Err"
             THEN /\ bootpc' = "failed"
                  /\ ldLog' = Append(ldLog, LogEntry("load_mints", "FetchErr"))
                  /\ UNCHANGED <<mints, ldpc>>
             ELSE /\ bootpc' = "load_oracles"
                  /\ ldLog' = Append(ldLog, LogEntry("load_mints", "Ok"))
                  /\ mints' = UpdateMints(mints, Unwrap(fetch.val))
                  /\ ldpc' = "start"
          /\ lastOp' = LoadMintsOp(mint_addresses, fetch)
    /\ UNCHANGED <<cacheVars, oracles, clock, exited, ldTodo, oracle_accounts,
                   oracle_addresses, luts, lut_addresses, ldSlot, ldAccounts>>

\* load_oracles up to its loops
BootLoadOraclesStart ==
    /\ bootpc = "load_oracles"
    /\ LoadOraclesStart
    /\ IF ldpc' = "failed"
       THEN /\ bootpc' = "failed"
            /\ ldLog' = Append(ldLog, LogEntry("load_oracles", "FetchErr"))
       ELSE /\ bootpc' = bootpc
            /\ ldLog' = Append(ldLog, LogEntry("load_oracles", "running"))
    /\ UNCHANGED <<mints, luts, lut_addresses, ldSlot, ldAccounts>>

\* one iteration of the inner loop of load_oracles
BootLoadOraclesInsert ==
    /\ bootpc = "load_oracles"
    /\ LoadOraclesInsert
    /\ UNCHANGED bootVars

\* load_oracles returns Ok
BootLoadOraclesDone ==
    /\ bootpc = "load_oracles"
    /\ LoadOraclesDone
    /\ bootpc' = "load_luts"
    /\ ldLog' = LogResult("Ok")
    /\ UNCHANGED <<mints, luts, lut_addresses, ldSlot, ldAccounts>>

\* load_luts, and the return of load_cache
BootLoadLuts(fetch) ==
    LET r == load_luts(luts, lut_addresses, fetch) IN
    /\ ~exited
    /\ bootpc = "load_luts"
    /\ luts' = r.luts
    /\ bootpc' = IF r.result = "Ok" THEN "done" ELSE "failed"
    /\ ldLog' = Append(ldLog, LogEntry("load_luts", r.result))
    /\ lastOp' = BootOp("load_luts")
    /\ UNCHANGED <<cacheVars, oracles, clock, exited, loadVars, mints,
                   lut_addresses, ldSlot, ldAccounts>>

\* the GeyserSubscriber thread passes an event on (handle_event) and the
\* GeyserProcessor thread applies it; an error returned by load_cache ends
\* the process
BootEvent(msg) ==
    LET r == process_message(BootCache, msg) IN
    /\ ~exited
    /\ bootpc # "failed"
    /\ msg.slot >= clock.slot
    /\ msg.message_type = "Oracle" =>
          (IsSome(oracle_addresses) /\ msg.address \in Unwrap(oracle_addresses))
    /\ clock' = r.cache.clock
    /\ banks' = r.cache.banks
    /\ accounts' = r.cache.accounts
    /\ account_to_health' = r.cache.account_to_health
    /\ oracles' = r.cache.oracles
    /\ mints' = r.cache.mints
    /\ luts' = r.cache.luts
    /\ exited' = (r.result = "Panic")
    /\ lastOp' = BootOp("event")
    /\ UNCHANGED <<loadVars, lut_addresses, bootpc, ldSlot, ldAccounts, ldLog>>

\* GeyserSubscriber::run reads the oracle addresses of the cache, once
BootSubscriberRun ==
    /\ bootpc # "failed"
    /\ SubscriberRun
    /\ UNCHANGED bootVars

BootUnchanged ==
    UNCHANGED <<ordVars, lockVars, schedVars, gpVars, paVars, mainpc>>

NextBoot ==
    \/ \E fetch \in get_program_accounts : BootLoadAccounts(fetch) /\ BootUnchanged
    \/ BootLoadAccountsStep /\ BootUnchanged
    \/ BootLoadAccountsDone /\ BootUnchanged
    \/ BootLoadMints /\ BootUnchanged
    \/ BootLoadOraclesStart /\ BootUnchanged
    \/ BootLoadOraclesInsert /\ BootUnchanged
    \/ BootLoadOraclesDone /\ BootUnchanged
    \/ \E fetch \in get_accounts(lut_addresses, LutData) :
          BootLoadLuts(fetch) /\ BootUnchanged
    \/ \E msg \in BootMessages : BootEvent(msg) /\ BootUnchanged
    \/ BootSubscriberRun /\ BootUnchanged

SpecBoot == InitBoot /\ [][NextBoot]_vars

----------------------------------------------------------------------------
(* Properties of the caches, checked under Spec *)

\* the entry a call stores when it is accepted
BankOf(op) == CachedBankFrom(op.slot, op.address, op.value)
AccountOf(op) == CachedMarginfiAccountFrom(op.slot, op.address, op.value)

\* the call's slot is not above the slot stored for its address in map
Stale(map, op) == op.address \in DOMAIN map /\ op.slot <= map[op.address].slot

C4_RepeatedUpsertIsIdempotent ==
    [][ SameCall(lastOp, lastOp'.kind, lastOp'.slot, lastOp'.address, lastOp'.value)
            => UNCHANGED cacheVars ]_vars

\* the Position upsert that stored the current entry has been applied again
C4_Witness ==
    /\ lastOp.kind = "account"
    /\ ~lastOp.applied
    /\ accounts[lastOp.address] = AccountOf(lastOp)
    /\ account_to_health[lastOp.address] # INVALID_HEALTH

\* C5: the Health Index has an entry exactly for the cached Positions, and
\* each entry is the health score of the Position stored now (the sentinel
\* when the score is undefined).
C5_HealthIndexMirrorsAccounts ==
    /\ DOMAIN account_to_health = DOMAIN accounts
    /\ \A a \in DOMAIN accounts :
          account_to_health[a] = HealthEntry(health(accounts[a]))

\* a Position upsert with another score than the stored one was dropped
C5_Witness ==
    /\ lastOp.kind = "account"
    /\ ~lastOp.applied
    /\ HealthEntry(health(AccountOf(lastOp))) # account_to_health[lastOp.address]
    /\ \E a \in DOMAIN accounts : accounts[a].slot > 1

\* C7: a Position upsert with asset_value_maint = 0 that passes the slot
\* rule returns Ok, is cached, and its Health Index entry is the sentinel.
C7_ZeroAssetsStoreSentinel ==
    (lastOp.kind = "account" /\ lastOp.applied
        /\ lastOp.value.asset_value_maint = 0)
    => /\ lastOp.result = "Ok"
       /\ lastOp.address \in DOMAIN accounts
       /\ accounts[lastOp.address] = AccountOf(lastOp)
       /\ lastOp.address \in DOMAIN account_to_health
       /\ account_to_health[lastOp.address] = INVALID_HEALTH

\* a zero-asset Position has been accepted at a slot above the first
C7_Witness ==
    /\ lastOp.kind = "account"
    /\ lastOp.applied
    /\ lastOp.value.asset_value_maint = 0
    /\ lastOp.slot > 1
    /\ account_to_health[lastOp.address] = INVALID_HEALTH

----------------------------------------------------------------------------
(* Properties of the write order, checked under SpecOrd *)

DoneA == Range(appliedA) = upserts
DoneB == Range(appliedB) = upserts

CacheA == [banks |-> banks, accounts |-> accounts,
           account_to_health |-> account_to_health]

EntryOf(u) == IF u.kind = "bank" THEN BankOf(u) ELSE AccountOf(u)
MapOf(c, kind) == IF kind = "bank" THEN c.banks ELSE c.accounts

\* u1 and u2 are the only upserts of their kind to their address,
\* u1 at the lower slot, and they carry different values
OlderNewerPair(u1, u2) ==
    /\ u1.kind = u2.kind
    /\ u1.address = u2.address
    /\ u1.slot < u2.slot
    /\ u1.value # u2.value
    /\ \A u \in upserts :
          (u.kind = u1.kind /\ u.address = u1.address) => u \in {u1, u2}

StoresNewer(c, u2) ==
    /\ u2.address \in DOMAIN MapOf(c, u2.kind)
    /\ MapOf(c, u2.kind)[u2.address] = EntryOf(u2)
    /\ MapOf(c, u2.kind)[u2.address].slot = u2.slot

\* C1: two upserts with slots s1 < s2 and different values, applied in
\* either order to an address not yet cached, leave slot s2 and the value
\* supplied with s2, in the Pool cache and in the Position cache.
C1_NewerSlotWinsInEitherOrder ==
    \A u1 \in upserts, u2 \in upserts :
        OlderNewerPair(u1, u2) =>
            /\ (DoneA => StoresNewer(CacheA, u2))
            /\ (DoneB => StoresNewer(cacheB, u2))

\* the newer Position upsert came last in one serialization and first in
\* the other
C1_Witness ==
    /\ DoneA /\ DoneB
    /\ Len(appliedA) = 2
    /\ appliedA[1].kind = "account"
    /\ OlderNewerPair(appliedA[1], appliedA[2])
    /\ appliedB = <<appliedA[2], appliedA[1]>>

\* C3: for any set of upserts the final cache state is the same whatever
\* order the writes are serialized in, also for two upserts to one address
\* with the same slot and different values.
C3_FinalStateIndependentOfOrder ==
    (DoneA /\ DoneB) => CacheA = cacheB

----------------------------------------------------------------------------
(* Properties of the locking, checked under SpecLock *)

\* a thread is between its write of accounts and its write of account_to_health
WriteHalfApplied == ~C5_HealthIndexMirrorsAccounts

\* C6: update() holds both write locks while it modifies the two maps: a
\* write is applied to one map and not yet to the other only while one
\* writer holds both locks, so no reader holding a read lock of either map
\* is there to observe it.
C6_NoReaderSeesHalfAppliedWrite ==
    /\ WriteHalfApplied =>
          /\ accountsLock.writer \in Writers
          /\ healthLock.writer = accountsLock.writer
          /\ accountsLock.readers = {}
          /\ healthLock.readers = {}
    /\ (\E r \in Readers : rpc[r] # "idle") => ~WriteHalfApplied

\* a writer has inserted into accounts and not yet into account_to_health,
\* while the other writer waits for the lock
C6_Witness ==
    /\ WriteHalfApplied
    /\ \E t \in Writers : wpc[t] = "insert_health"
    /\ \E t \in Writers : wpc[t] = "lock_accounts"
    /\ DOMAIN accounts # {}
    /\ DOMAIN account_to_health # {}

----------------------------------------------------------------------------
(* Properties of the scheduler cycle, checked under SpecSched *)

VisitedAddresses == [i \in 1..Len(visited) |-> visited[i].address]

\* C8: within a cycle an address with a lower health score is processed
\* before every address with a higher score.
C8_WorstFirst ==
    \A i \in 1..Len(visited), j \in 1..Len(visited) :
        i < j => snapshot[visited[i].address] <= snapshot[visited[j].address]

Sentinel(a) == snapshot[a] = INVALID_HEALTH

\* C9: in the visit order the sentinel addresses sort at one extreme:
\* before every address with a computed score or after every one of them.
C9_SentinelAtOneExtreme ==
    lqpc = "sleep" =>
        \/ \A i \in 1..Len(visited), j \in 1..Len(visited) :
              (Sentinel(visited[i].address) /\ ~Sentinel(visited[j].address))
                  => i < j
        \/ \A i \in 1..Len(visited), j \in 1..Len(visited) :
              (Sentinel(visited[i].address) /\ ~Sentinel(visited[j].address))
                  => j < i

\* C10: in one cycle every address of the snapshot is processed exactly
\* once, in the sorted order, and a visit that fails does not end the
\* cycle: the addresses after it are visited too.
C10_CycleVisitsEveryAddressOnce ==
    /\ lqpc \in {"visit", "sleep"} =>
          /\ VisitedAddresses = SubSeq(sorted_accounts, 1, idx)
          /\ Range(sorted_accounts) = DOMAIN snapshot
          /\ Len(sorted_accounts) = Cardinality(DOMAIN snapshot)
    /\ lqpc = "sleep" =>
          /\ Range(VisitedAddresses) = DOMAIN snapshot
          /\ Len(visited) = Cardinality(DOMAIN snapshot)

\* a completed cycle over three addresses whose first visit failed
C10_Witness ==
    /\ lqpc = "sleep"
    /\ Len(visited) = 3
    /\ visited[1].result = "Err"
    /\ visited[3].result = "Ok"

----------------------------------------------------------------------------
(* Properties of the Oracles cache, checked under SpecOracle *)

\* the slot of the price stored for an address, 0 when no price is stored
StoredSlot(os, a) == IF a \in DOMAIN os THEN AdapterSlot(os[a]) ELSE 0

\* C18: for every oracle address, across the inserts of the Bootstrap
\* Loader and the streamed updates, the slot of the stored price (0 when no
\* price is stored) never decreases.
C18_OracleSlotNeverDecreases ==
    [][ \A a \in OracleAddress :
            StoredSlot(oracles', a) >= StoredSlot(oracles, a) ]_vars

\* the adapter an accepted update stores
AdapterOf(op) == [slot |-> op.slot, _adapter |-> [price |-> op.value.price]]

\* the data of the call can be parsed for the type of the cached oracle
Decodable(os, op) ==
    CachedPriceAdapterFrom(op.slot, os[op.address]._oracle_type,
                           op.address, op.value).tag = "Ok"

\* C19: an oracle update at a slot lower than or equal to the slot of the
\* cached price adapter leaves the adapter unchanged and returns Ok; an
\* update at a strictly higher slot with decodable bytes replaces the
\* adapter and its slot.
C19_OracleUpdateFollowsSlot ==
    [][ (lastOp'.kind = "oracle_update" /\ lastOp'.address \in DOMAIN oracles) =>
          LET a == lastOp'.address IN
          /\ (IsSome(oracles[a].adapter)
                /\ lastOp'.slot <= Unwrap(oracles[a].adapter).slot)
              => /\ oracles' = oracles
                 /\ lastOp'.result = "Ok"
                 /\ ~exited'
          /\ (lastOp'.slot > StoredSlot(oracles, a) /\ Decodable(oracles, lastOp'))
              => /\ oracles' = [oracles EXCEPT ![a].adapter = Some(AdapterOf(lastOp'))]
                 /\ lastOp'.result = "Ok" ]_vars

\* a streamed update has replaced the inserted price, and a second update at
\* the same slot with another price was dropped
C19_Witness ==
    /\ lastOp.kind = "oracle_update"
    /\ ~lastOp.applied
    /\ lastOp.address \in DOMAIN oracles
    /\ IsSome(oracles[lastOp.address].adapter)
    /\ Unwrap(oracles[lastOp.address].adapter).slot = lastOp.slot
    /\ lastOp.slot > clock.slot
    /\ Decodable(oracles, lastOp)
    /\ Unwrap(oracles[lastOp.address].adapter)._adapter.price # lastOp.value.price

----------------------------------------------------------------------------
(* Properties of the Ingestion Processor, checked under SpecIngest *)

\* the messages recv has returned, in order
Received ==
    LET got == SelectSeq(handled, LAMBDA h : h.result # "RecvErr")
    IN [i \in 1..Len(got) |-> got[i].msg]

\* the GeyserProcessor has just handled a message, with this result
JustHandled(result) ==
    /\ Len(handled') = Len(handled) + 1
    /\ handled'[Len(handled')].result = result

C14_RecvErrorDoesNotEndLoop ==
    /\ [](gppc \in {"loop", "recv", "returned"})
    /\ [](gppc = "returned" => stop)
    /\ [][ JustHandled("RecvErr") => gppc' = "loop" ]_vars
    /\ ((stop /\ ~connected) ~> (gppc = "returned" \/ exited))

\* receive has failed twice on the closed channel, and run() has returned
\* after the stop flag was set
C14_Witness ==
    /\ ~connected
    /\ RecvErrs = 2
    /\ stop
    /\ gppc = "returned"

\* C15: once the stop flag is set the Ingestion Processor loop eventually
\* exits, in every execution, also when the queue is empty and stays open.
C15_StopEndsIngestLoop ==
    stop ~> (gppc = "returned" \/ exited)

\* C20: the slot of the cached clock never decreases.
C20_ClockSlotNeverDecreases ==
    [][ clock'.slot >= clock.slot ]_vars

----------------------------------------------------------------------------
(* Properties of process_account and of the scheduler's shutdown, checked  *)
(* under SpecSvc                                                           *)

\* the strategy calls of the visits of the cycle, the one in progress last
VisitCalls ==
    [i \in 1..Len(visited) |-> visited[i].calls] \o <<calls>>

Liquidates(strategy_calls) ==
    \E k \in 1..Len(strategy_calls) : strategy_calls[k].fn = "liquidate"

PrepareReturned(strategy_calls, ret) ==
    \E k \in 1..Len(strategy_calls) : strategy_calls[k] = Call("prepare", ret)

\* C11: liquidate is invoked for an address only after prepare has returned
\* params for that address in the same visit; when prepare returns None,
\* liquidate is not invoked for the address in the cycle and the visit ends
\* as a success.
C11_LiquidateOnlyAfterPrepare ==
    /\ \A i \in 1..Len(VisitCalls) :
          \A k \in 1..Len(VisitCalls[i]) :
             VisitCalls[i][k].fn = "liquidate" =>
                (k > 1 /\ VisitCalls[i][k - 1] = Call("prepare", "Some"))
    /\ \A i \in 1..Len(visited) :
          PrepareReturned(visited[i].calls, "None") =>
             /\ visited[i].result = "Ok"
             /\ \A j \in 1..Len(visited) :
                   visited[j].address = visited[i].address
                      => ~Liquidates(visited[j].calls)
    /\ papc = "liquidate" => calls = <<Call("prepare", "Some")>>

\* in one cycle prepare returned None for one address and params for the
\* other, which was then liquidated
C11_Witness ==
    /\ lqpc = "sleep"
    /\ Len(visited) = 2
    /\ visited[1].calls = <<Call("prepare", "None")>>
    /\ visited[1].result = "Ok"
    /\ visited[2].calls = <<Call("prepare", "Some"), Call("liquidate", "Ok")>>

\* C16: once the stop flag is set the scheduler starts no new cycle after
\* the one in progress, and run() eventually returns Ok, also when the
\* snapshot of the Health Index fails in every cycle.
C16_StopEndsSchedulerLoop ==
    /\ [][ (stop /\ lqpc # "cycle") => lqpc' # "cycle" ]_vars
    /\ [](lqpc \in {"loop", "cycle", "visit", "sleep", "returned"})
    /\ (stop ~> lqpc = "returned")

\* run() has returned after the stop flag was set, and its last snapshot
\* had failed on the poisoned lock
C16_Witness ==
    /\ stop
    /\ lqpc = "returned"
    /\ "account_to_health" \in poisoned
    /\ lastOp.kind = "snapshot"
    /\ lastOp.result = "Err"

\* the scheduler's snapshot, or its Position lookup, fails on a poisoned lock
SnapshotFailsPoisoned ==
    /\ lqpc = "cycle"
    /\ "account_to_health" \in poisoned
    /\ lqpc' # lqpc

LookupFailsPoisoned ==
    /\ lqpc = "visit"
    /\ papc = "off"
    /\ "accounts" \in poisoned
    /\ idx' # idx

\* C17: a loop that observes a cache operation failing on a poisoned lock
\* treats it as fatal and stops; it does not log the error and go on, nor
\* retry the operation in a following cycle.
C17_PoisonedLockStopsLoop ==
    [][ (SnapshotFailsPoisoned \/ LookupFailsPoisoned)
            => lqpc' \notin {"loop", "cycle", "visit", "sleep"} ]_vars

----------------------------------------------------------------------------
(* Properties of the startup, checked under SpecStart *)

\* C12: the Liquidation Scheduler does not begin its first cycle until
\* load_cache has returned Ok, and no cycle ever runs when load_cache
\* returns an error; the Ingestion Processor may apply events while
\* load_cache is running.
C12_SchedulerStartsAfterLoad ==
    /\ lqpc # "off" => ldpc = "done"
    /\ ldpc = "failed" => (lqpc = "off" /\ exited)
    /\ ldpc \in Range(LoadSteps) => (lqpc = "off" /\ visited = <<>>)

\* load_cache is still running, the Ingestion Processor has applied a
\* Position event and the Bootstrap Loader has stored its own Position
C12_Witness ==
    /\ mainpc = "load_cache"
    /\ ldpc = "load_luts"
    /\ Len(handled) > 0
    /\ handled[1].result = "Ok"
    /\ DOMAIN accounts = {"A1", "A2"}
    /\ lqpc = "off"

----------------------------------------------------------------------------
(* Properties of the oracle decoders, checked under SpecDecode *)

\* the variants CachedPriceAdapter::from parses, and the discriminator each
\* expects
ParsedSetups == {"SwitchboardPull", "PythPushOracle"}
Magic(oracle_type) == IF oracle_type = "SwitchboardPull" THEN "swb" ELSE "pyth"

RejectMessages == {"InvalidLength", "InvalidDiscriminator", "UnsupportedOracleType"}

C28_OracleDecodeNeverPanics ==
    /\ lastOp.decoded # "Panic"
    /\ lastOp.result # "Panic"
    /\ ~exited

\* C29: OraclesCache::insert returns Ok and stores the address and the
\* variant of the oracle even when its bytes cannot be decoded; the entry
\* then has no price adapter, get(address) returns it and
\* get_oracle_addresses lists the address.
C29_InsertStoresIdentityWithoutPrice ==
    (lastOp.kind = "oracle_insert" /\ lastOp.decoded # "Ok") =>
        LET a == lastOp.address IN
        /\ lastOp.result = "Ok"
        /\ OraclesCacheGet(oracles, a)
              = Some(CachedOracleFrom(a, lastOp.value.oracle_type, None))
        /\ a \in get_oracle_addresses(oracles)

\* the step is a call of OraclesCache::update that found no entry for the
\* address, or whose parse did not yield an adapter
UpdateFails ==
    /\ lastOp'.kind = "oracle_update"
    /\ \/ lastOp'.address \notin DOMAIN oracles
       \/ lastOp'.decoded \notin {"Ok", "NotParsed"}

\* C37: OraclesCache::update returns Ok and leaves the Oracles cache as it
\* was in both of its failure paths: nothing is inserted for an address that
\* is not cached, and the adapter and slot of a cached oracle are kept when
\* the new bytes fail to decode at a newer slot.
C37_FailedUpdateChangesNothing ==
    [][UpdateFails => (lastOp'.result = "Ok" /\ oracles' = oracles)]_vars

----------------------------------------------------------------------------
(* Properties of the LookupTable cache, checked under SpecLuts *)

\* the tables of the fetched accounts that deserialize, in the fetched order
RECURSIVE GoodLuts(_)
GoodLuts(lut_accounts) ==
    IF lut_accounts = <<>> THEN <<>>
    ELSE LET lut == Head(lut_accounts) IN
         (IF IsSome(lut.account)
          THEN <<AddressLookupTableAccount(lut.address, Unwrap(lut.account))>>
          ELSE <<>>) \o GoodLuts(Tail(lut_accounts))

\* load_luts fetched the accounts and at least one does not deserialize
SomeLutFailed(op) ==
    /\ op.kind = "load_luts"
    /\ op.fetched
    /\ Unwrap(op.value).tag = "Ok"
    /\ \E i \in 1..Len(Unwrap(Unwrap(op.value).val)) :
          ~IsSome(Unwrap(Unwrap(op.value).val)[i].account)

\* C23: a lookup-table account that fails to deserialize during load_luts
\* does not make load_luts fail: the failure is confined to that table, and
\* the tables that did deserialize are stored in the LookupTable cache.
C23_BadLutIsConfined ==
    SomeLutFailed(lastOp) =>
        /\ lastOp.result = "Ok"
        /\ LutsCacheGetAll(luts) = GoodLuts(Unwrap(Unwrap(lastOp.value).val))

\* C30: LutsCache::populate replaces the whole content: after populate(L)
\* has returned Ok, get_all returns exactly L, same tables in the same
\* order, whatever the cache held before; and with an empty list of table
\* addresses load_luts returns Ok without fetching and leaves the cache as
\* it was.
C30_PopulateReplacesAll ==
    [][ /\ lastOp'.kind = "populate" =>
              (lastOp'.result = "Ok" /\ LutsCacheGetAll(luts') = lastOp'.value)
        /\ (lastOp'.kind = "load_luts" /\ lut_addresses = <<>>) =>
              (lastOp'.result = "Ok" /\ ~lastOp'.fetched /\ luts' = luts) ]_vars

\* populate was called with one table on a cache that held two others
C30_Witness ==
    /\ lastOp.kind = "populate"
    /\ Len(lastOp.before) = 2
    /\ Len(lastOp.value) = 1
    /\ lastOp.value[1] # lastOp.before[1]
    /\ lastOp.value[1] # lastOp.before[2]
    /\ LutsCacheGetAll(luts) = lastOp.value

----------------------------------------------------------------------------
(* Properties of load_oracles, checked under SpecOracle *)

\* the step is an iteration of the inner for loop of load_oracles
LoadOraclesIteration ==
    /\ ldpc = "insert"
    /\ ldTodo # <<>>
    /\ ldTodo' = Tail(ldTodo)

\* C24: in load_oracles an oracle whose account the fetch did not return is
\* skipped, and an oracle whose bytes fail to decode is inserted with its
\* address and variant only; in both cases the phase goes on to the other
\* oracles of every Pool and returns Ok.
C24_LoadOraclesConfinesFailures ==
    [][ LoadOraclesIteration =>
          LET next == Head(ldTodo)
              a == next.address
          IN /\ a \notin DOMAIN oracle_accounts
                  => (oracles' = oracles /\ ~exited' /\ ldpc' = "insert")
             /\ (a \in DOMAIN oracle_accounts
                   /\ CachedPriceAdapterFrom(next.slot, next.oracle_type, a,
                                             oracle_accounts[a]).tag # "Ok")
                  => /\ a \in DOMAIN oracles'
                     /\ oracles'[a] = CachedOracleFrom(a, next.oracle_type, None)
                     /\ ~exited'
                     /\ ldpc' = "insert" ]_vars

----------------------------------------------------------------------------
(* Properties of load_cache, checked under SpecBoot *)

\* the step is one of the GeyserProcessor thread: load_cache does not move
EventStep == lastOp'.kind = "event" /\ UNCHANGED <<bootpc, ldpc, ldTodo, ldAccounts, ldLog>>

\* C21: no event the Ingestion Processor handles, of any kind (clock,
\* position, pool, oracle), changes the Mint cache or the LookupTable
\* cache; once the Bootstrap Loader has finished, both stay as they are.
C21_EventsLeaveMintsAndLuts ==
    [][ /\ EventStep => (mints' = mints /\ luts' = luts)
        /\ bootpc = "done" => (mints' = mints /\ luts' = luts) ]_vars

\* load_cache has returned Ok with a Mint and two lookup tables cached, and
\* the Ingestion Processor has since applied events, a Pool event among them
C21_Witness ==
    /\ bootpc = "done"
    /\ lastOp.kind = "event"
    /\ DOMAIN mints = {"M2"}
    /\ Len(luts) = 2
    /\ "A1" \in DOMAIN banks
    /\ banks["A1"].slot = MaxIngestSlot
    /\ clock.slot = MaxIngestSlot

\* the loads load_cache has entered, in order
Phases == [i \in 1..Len(ldLog) |-> ldLog[i].phase]

\* C22: load_cache runs load_accounts, load_mints, load_oracles and
\* load_luts strictly in that order, each at most once, a load only after
\* the one before it has returned Ok; a fetch failure in load_accounts or
\* load_mints makes load_cache return the error, no later load being run.
C22_LoadsRunInOrder ==
    /\ Len(ldLog) <= Len(LoadSteps)
    /\ Phases = SubSeq(LoadSteps, 1, Len(ldLog))
    /\ \A i \in 1..Len(ldLog) :
          /\ i < Len(ldLog) => ldLog[i].result = "Ok"
          /\ (ldLog[i].phase \in {"load_accounts", "load_mints"}
                /\ ldLog[i].result = "FetchErr")
             => (i = Len(ldLog) /\ bootpc = "failed")
    /\ (bootpc = "failed" /\ Len(ldLog) <= 2)
          => (ldpc = "off" /\ oracles = EmptyMap /\ luts = <<>>)
    /\ bootpc = "done" => Len(ldLog) = Len(LoadSteps)

\* the fetch of load_mints failed after load_accounts had cached a Pool:
\* load_cache has returned and neither oracles nor lookup tables were loaded
C22_Witness ==
    /\ bootpc = "failed"
    /\ Len(ldLog) = 2
    /\ ldLog[2] = LogEntry("load_mints", "FetchErr")
    /\ "A1" \in DOMAIN banks
    /\ mints = EmptyMap
    /\ oracles = EmptyMap
    /\ luts = <<>>
    /\ lut_addresses # <<>>

\* C25: during load_accounts a program-owned account that is classified as
\* Position or Pool and then fails to decode is logged and skipped: the
\* remaining fetched accounts are still decoded and inserted and the phase
\* returns Ok.
C25_UndecodableAccountIsSkipped ==
    /\ \A i \in 1..Len(ldLog) :
          ldLog[i].phase = "load_accounts" => ldLog[i].result # "DecodeErr"
    /\ (bootpc = "failed" /\ Len(ldLog) = 1) => ldAccounts = <<>>

\* the step is an iteration of the for loop of load_accounts that stores a
\* record
LoadAccountsInsert ==
    /\ bootpc = "accounts_loop"
    /\ ldAccounts # <<>>
    /\ ldAccounts' = Tail(ldAccounts)
    /\ lastOp'.kind \in {"load_account", "load_bank"}
    /\ lastOp'.applied

\* C26: every Pool and Position record one run of load_accounts inserts
\* carries the same slot, the slot of the cached clock read once at the
\* start of the phase, also when the Ingestion Processor advances the
\* cached clock while the phase is inserting.
C26_LoadAccountsStampsOneSlot ==
    [][ /\ (bootpc = "load_accounts" /\ bootpc' = "accounts_loop")
              => ldSlot' = clock.slot
        /\ bootpc = "accounts_loop" => ldSlot' = ldSlot
        /\ LoadAccountsInsert =>
              LET a == Head(ldAccounts).address IN
              IF lastOp'.kind = "load_bank"
              THEN banks'[a].slot = ldSlot
              ELSE accounts'[a].slot = ldSlot ]_vars

\* load_accounts has inserted a Pool and then a Position, both at the slot
\* it read, and the cached clock had moved on before the second insert
C26_Witness ==
    /\ lastOp.kind = "load_account"
    /\ lastOp.applied
    /\ clock.slot > ldSlot
    /\ "A1" \in DOMAIN banks
    /\ banks["A1"].slot = ldSlot
    /\ accounts[lastOp.address].slot = ldSlot

----------------------------------------------------------------------------
(* Properties of the classifier, checked under SpecClassify *)

\* the first eight bytes of the classified data are magic
Prefixed(magic) ==
    /\ Len(lastOp.value) >= 8
    /\ \A i \in 1..8 : lastOp.value[i] = magic[i]

\* C31: get_marginfi_message_type returns MarginfiAccount exactly when the
\* data is longer than 8 bytes and starts with the MarginfiAccount
\* discriminator, Bank exactly when it is longer than 8 bytes and starts with
\* the Bank discriminator, and None for every other input; it always returns
C31_ClassifierIsExact ==
    lastOp.kind = "classify" =>
        /\ lastOp.result = Some("MarginfiAccount")
             <=> (Len(lastOp.value) > 8 /\ Prefixed(MARGINFI_ACCOUNT_DISCRIMINATOR))
        /\ lastOp.result = Some("Bank")
             <=> (Len(lastOp.value) > 8 /\ Prefixed(MARGINFI_BANK_DISCRIMINATOR))
        /\ lastOp.result \in {Some("MarginfiAccount"), Some("Bank"), None}
        /\ Len(lastOp.value) <= 8 => lastOp.result = None

\* data that is exactly the Bank discriminator has been classified as None
C31_Witness ==
    /\ lastOp.kind = "classify"
    /\ lastOp.value = MARGINFI_BANK_DISCRIMINATOR
    /\ lastOp.result = None

----------------------------------------------------------------------------
(* Properties of get_oracles_data, checked under Spec *)

\* the positions of oracle_keys that hold an address
Declared(oracle_keys) == {i \in 1..Len(oracle_keys) : oracle_keys[i] # DefaultPubkey}

\* the addresses a Bank declares, in declaration order
DeclaredAddresses(oracle_keys) ==
    [j \in 1..Cardinality(Declared(oracle_keys)) |->
        oracle_keys[CHOOSE i \in Declared(oracle_keys) :
                        Cardinality({k \in Declared(oracle_keys) : k <= i}) = j]]

\* the entry get_oracles_data owes for a Bank
DeclaredOracle(bank) ==
    [oracle_type |-> bank.oracle_setup,
     oracle_addresses |-> DeclaredAddresses(bank.oracle_keys)]

\* the Bank last stored at address: the one just written, or else the Bank
\* value with the cached mint
StoredBank(address) ==
    IF lastOp.kind = "bank" /\ lastOp.applied /\ lastOp.address = address
    THEN lastOp.value
    ELSE BankWith(banks[address].mint)

\* C32: get_oracles_data returns one entry per cached Bank, with the Bank's
\* oracle setup and its declared oracle addresses in declaration order,
\* default addresses removed and duplicates kept; a Bank replaced at a newer
\* slot contributes its new oracle set only
C32_OraclesDataFollowsBanks ==
    \A oracles_data \in get_oracles_data(banks) :
        /\ Len(oracles_data) = Cardinality(DOMAIN banks)
        /\ \E p \in KeyOrders(banks) :
              \A i \in 1..Len(oracles_data) :
                  oracles_data[i] = DeclaredOracle(StoredBank(p[i]))

\* a Bank declaring the same oracle twice has been stored at A1 at slot 2
\* while a Bank with other oracles is cached at A2, and both copies of the
\* address are returned
C32_Witness ==
    /\ lastOp.kind = "bank" /\ lastOp.applied
    /\ lastOp.slot = 2 /\ lastOp.address = "A1"
    /\ lastOp.value.oracle_keys[1] = lastOp.value.oracle_keys[2]
    /\ DOMAIN banks = {"A1", "A2"}
    /\ banks["A2"].mint # banks["A1"].mint
    /\ \E oracles_data \in get_oracles_data(banks) :
          oracles_data[1].oracle_addresses = <<"O3", "O3">>

\* C33: the address list load_mints collects with get_mints holds exactly
\* the mints of the cached Banks, each distinct address once, also when two
\* Banks have the same mint; and when load_mints returns Ok every mint whose
\* account was fetched is in the Mints cache with the owner of the account
C33_MintListIsDistinct ==
    lastOp.kind = "load_mints" =>
        /\ Range(lastOp.value) = {banks[a].mint : a \in DOMAIN banks}
        /\ \A i \in 1..Len(lastOp.value), j \in 1..Len(lastOp.value) :
              i # j => lastOp.value[i] # lastOp.value[j]
        /\ lastOp.result.tag = "Ok" =>
              \A t \in Range(Unwrap(lastOp.result.val)) :
                  /\ t.address \in DOMAIN mints
                  /\ mints[t.address].owner = t.account.owner

----------------------------------------------------------------------------
(* Properties of the health score, checked under SpecHealth *)

\* C34: for asset_value_maint > 0 the score is
\* (asset_value_maint - liability_value_maint) / asset_value_maint rounded
\* down to a signed integer: -1 or lower whenever the liabilities exceed the
\* assets, and 0 or higher whenever they do not
C34_ScoreSeparatesUnderwater ==
    LET asset == lastOp.value.asset_value_maint
        liability == lastOp.value.liability_value_maint
    IN (lastOp.kind = "health" /\ asset > 0) =>
          /\ lastOp.result.tag = "Ok"
          /\ IsSome(Unwrap(lastOp.result.val))
          /\ LET score == Unwrap(Unwrap(lastOp.result.val))
             IN /\ score * asset <= asset - liability
                /\ asset - liability < (score + 1) * asset
                /\ liability > asset => score <= -1
                /\ liability <= asset => score >= 0

\* C35: no operation removes an address from the Banks, MarginfiAccounts,
\* Mints or Oracles cache or from the Health Index: under every interleaving
\* of load_cache and the streamed events each key set only grows
C35_NoAddressIsRemoved ==
    [][/\ DOMAIN banks \subseteq DOMAIN banks'
       /\ DOMAIN accounts \subseteq DOMAIN accounts'
       /\ DOMAIN account_to_health \subseteq DOMAIN account_to_health'
       /\ DOMAIN mints \subseteq DOMAIN mints'
       /\ DOMAIN oracles \subseteq DOMAIN oracles']_vars

\* every cache holds an address, the Position at A2 was streamed at the
\* highest slot, and the loop of load_accounts, which read a lower slot, has
\* just handled its last account
C35_Witness ==
    /\ DOMAIN banks # {} /\ DOMAIN mints # {} /\ DOMAIN oracles # {}
    /\ "A2" \in DOMAIN accounts /\ "A2" \in DOMAIN account_to_health
    /\ accounts["A2"].slot = MaxIngestSlot
    /\ ldSlot < MaxIngestSlot
    /\ bootpc = "done"
    /\ \E i \in 1..Len(ldLog) : ldLog[i].phase = "load_accounts"

----------------------------------------------------------------------------
(* Properties of the stop flag, checked under SpecIngest *)

\* run() is about to evaluate its loop condition with the flag set, or has
\* returned
StopObserved == gppc = "returned" \/ (gppc = "loop" /\ stop)

\* C36: GeyserProcessor::run checks the stop flag before every receive: once
\* the flag is set when run() starts or when an iteration begins, run()
\* returns without receiving; no queued event is dequeued or applied, and
\* the caches stay as they are
C36_StopIsCheckedBeforeReceive ==
    [][StopObserved =>
          /\ gppc' \in {"loop", "returned"}
          /\ gppc' # gppc => gppc' = "returned"
          /\ handled' = handled
          /\ Len(queue') >= Len(queue)
          /\ SubSeq(queue', 1, Len(queue)) = queue
          /\ UNCHANGED <<cacheVars, oracles, clock>>]_vars

\* the flag was set before run() received anything: run() has returned with
\* two events still in the queue, none of them applied
C36_Witness ==
    /\ gppc = "returned"
    /\ stop
    /\ handled = <<>>
    /\ Len(queue) = 2
    /\ accounts = EmptyMap /\ banks = EmptyMap

----------------------------------------------------------------------------
(* Properties of the cache locks, checked under SpecGuards *)

\* the locks of which the thread holds a guard
HeldBy(t) == {name \in LockNames : Lock(name).writer = t \/ t \in Lock(name).readers}

\* the lock the thread is blocked on or about to take, with the mode
Wanted(t) ==
    IF t \in Writers /\ wpc[t] = "lock_accounts" THEN <<[name |-> "accounts", mode |-> "write"]>>
    ELSE IF t \in Writers /\ wpc[t] = "lock_health"
    THEN <<[name |-> "account_to_health", mode |-> "write"]>>
    ELSE IF kpc[t].held < Len(kpc[t].locks)
    THEN <<[name |-> kpc[t].locks[kpc[t].held + 1], mode |-> kpc[t].mode]>>
    ELSE <<>>

\* the threads whose guards keep the thread from taking the lock it wants
Blockers(t) ==
    IF Wanted(t) = <<>> THEN {}
    ELSE LET lock == Lock(Wanted(t)[1].name)
         IN IF Wanted(t)[1].mode = "write"
            THEN ({lock.writer} \cup lock.readers) \ {Nobody}
            ELSE {lock.writer} \ {Nobody}

\* every thread of the set waits for a guard held by a thread of the set
Deadlocked(S) == \A t \in S : Blockers(t) \cap S # {}

\* the locks of one entity kind: the accounts map and the Health Index are
\* both the Position's
SameKind(name) ==
    IF name \in {"accounts", "account_to_health"}
    THEN {"accounts", "account_to_health"} ELSE {name}

\* C38: no interleaving of the cache calls of the loader, the processor, the
\* subscriber, the scheduler and the stats report deadlocks: only
\* MarginfiAccountsCache::update holds two locks, accounts taken before
\* account_to_health; every other call holds at most one; and a thread is
\* kept waiting only by guards of the entity kind it is about to lock
C38_NoDeadlockOnCacheLocks ==
    /\ \A t \in GuardThreads :
          \/ Cardinality(HeldBy(t)) <= 1
          \/ /\ t \in Writers
             /\ wpc[t] \in {"check", "insert_health", "drop_health"}
             /\ HeldBy(t) = {"accounts", "account_to_health"}
    /\ \A t \in GuardThreads :
          (HeldBy(t) # {} /\ Wanted(t) # <<>>) =>
              (HeldBy(t) = {"accounts"} /\ Wanted(t)[1].name = "account_to_health")
    /\ \A t \in GuardThreads : \A u \in Blockers(t) :
          HeldBy(u) \subseteq SameKind(Wanted(t)[1].name)
    /\ \A S \in SUBSET GuardThreads : S # {} => ~Deadlocked(S)

\* the loader holds accounts and waits for account_to_health, which the
\* scheduler is reading; the processor waits for accounts; the subscriber
\* reads the clock meanwhile
C38_Witness ==
    /\ wpc["loader"] = "lock_health"
    /\ "scheduler" \in healthLock.readers
    /\ wpc["processor"] = "lock_accounts"
    /\ "subscriber" \in kindLocks["clock"].readers

----------------------------------------------------------------------------
(* Properties of the visited Positions, checked under SpecVisit *)

\* C39: every address of the snapshot of the Health Index is found in the
\* accounts cache when it is visited, whatever the Ingestion Processor has
\* written meanwhile, and the Position handed to the strategy has a slot at
\* or above the slot of the write that produced the snapshot's score
C39_VisitedPositionIsFoundAndFresh ==
    \A i \in 1..Len(visited) :
        /\ visited[i].address \in DOMAIN snapshot
        /\ IsSome(visited[i].account)
        /\ Unwrap(visited[i].account).address = visited[i].address
        /\ Unwrap(visited[i].account).slot >= lastOp.value[visited[i].address]

\* the Position of A1 was written at slot 1 before the snapshot and at slot 2
\* after it: the visit of A1 got the newer one
C39_Witness ==
    /\ Len(visited) >= 1
    /\ \E i \in 1..Len(visited) :
          /\ visited[i].address = "A1"
          /\ lastOp.value["A1"] = 1
          /\ IsSome(visited[i].account)
          /\ Unwrap(visited[i].account).slot = 2
          /\ HealthEntry(health(Unwrap(visited[i].account))) # snapshot["A1"]

----------------------------------------------------------------------------
(* Properties of the subscribed oracle addresses, checked under SpecOracle *)

\* C40: once the subscriber has read the oracle address set, every oracle
\* address the Bootstrap Loader has inserted into the Oracle cache is in
\* that set, so that events of the address are classified as Oracle updates
C40_InsertedOraclesAreSubscribed ==
    IsSome(oracle_addresses) =>
        get_oracle_addresses(oracles) \subseteq Unwrap(oracle_addresses)

====
